---- MODULE Spec2Model ----
(***************************************************************************)
(* State-machine model of the MurfAI desktop prototypes:                   *)
(*   - the action-block extractor and the OS-action dispatcher,            *)
(*   - the language-to-voice selector,                                     *)
(*   - the three hosted-chat clients (conversational_murf_ai.py,           *)
(*     simple_app.py, app.py),                                             *)
(*   - the ConversationalMurfAI window that wires them together.           *)
(*                                                                         *)
(* A text is a sequence of tokens plus the language code the (seeded, so   *)
(* deterministic) langdetect library reports for it.  A token is a record  *)
(* [t, k, v]: t its lexical kind, v its characters, k the key of a JSON    *)
(* member.                                                                 *)
(***************************************************************************)
EXTENDS Naturals, Integers, Sequences, FiniteSets, TLC

\* ------------------------------------------------------------------------
\* Bounds of the model
\* ------------------------------------------------------------------------
MaxReplyLen == 5
MaxTextLen == 3
MaxCalls == 2
MaxRequests == 6
MaxSends == 1
MaxClicks == 2
\* the controls of the OMNI-AI window used in one run
MaxCommands == 3
\* the messages submitted to a QThread client in one run of the ledger
MaxLedger == 3
\* the calls of speak_text in one run of the speech threads
MaxSpeaks == 3
MaxClears == 2
MaxClearRequests == 3
MaxToggles == 4
MaxBuffers == 4
MaxTurns == 3

\* ------------------------------------------------------------------------
\* Tokens and texts
\* ------------------------------------------------------------------------
Tok(kind, key, val) == [t |-> kind, k |-> key, v |-> val]

MARK    == Tok("mark", "", "ACTION_JSON:")
MARKLC  == Tok("mark", "", "action_json:")
SP      == Tok("ws", "", " ")
NL      == Tok("ws", "", "NEWLINE")
LBRACE  == Tok("lbrace", "", "{")
RBRACE  == Tok("rbrace", "", "}")
COMMA   == Tok("comma", "", ",")
Word(w) == Tok("word", "", w)
\* "key": "value"  (a JSON member with a string value)
Member(key, val) == Tok("member", key, val)
\* "key": 5        (a JSON member whose value is a number)
NumMember(key) == Tok("nummember", key, "5")
\* "key":          (a member key waiting for a nested value)
Key(key) == Tok("key", key, "")

Langs == {"hi", "en", "fr", "raise"}

Text(tokens, language) == [toks |-> tokens, lang |-> language]

\* Python's None / a returned dict.  A dict is a set of <<key, value>> pairs
\* with one pair per key.
None == [some |-> FALSE, data |-> {}]
Some(d) == [some |-> TRUE, data |-> d]

DictGet(d, key, default) ==
    IF \E p \in d : p[1] = key
    THEN (CHOOSE p \in d : p[1] = key)[2]
    ELSE default

DictPut(d, key, val) == {p \in d : p[1] # key} \cup {<<key, val>>}

\* the value a non-string JSON value is represented by
NonString == "<number>"

RECURSIVE SeqsUpTo(_, _)
SeqsUpTo(S, n) ==
    IF n = 0 THEN {<<>>}
    ELSE LET shorter == SeqsUpTo(S, n - 1)
         IN shorter \cup {Append(s, x) : s \in {q \in shorter : Len(q) = n - 1}, x \in S}

\* ------------------------------------------------------------------------
\* extract_action_from_response  (conversational_murf_ai.py 510-526)
\* ------------------------------------------------------------------------
IsMarker(x) == x.t = "mark"
IsSpace(x) == x.t = "ws"

\* \s* : the first index after i that holds no whitespace (Len+1 if none)
RECURSIVE SkipSpace(_, _)
SkipSpace(s, i) ==
    IF i <= Len(s) /\ IsSpace(s[i]) THEN SkipSpace(s, i + 1) ELSE i

\* a mutant: the greedy \{.*\} , which runs to the last "}"
RECURSIVE LastRBrace(_, _)
LastRBrace(s, i) ==
    IF i > Len(s) THEN 0
    ELSE LET later == LastRBrace(s, i + 1)
         IN IF later # 0 THEN later
            ELSE IF s[i].t = "rbrace" THEN i
            ELSE 0

\* [^}]*\} : the index of the first "}" at or after i (0 if none)
RECURSIVE FirstRBrace(_, _)
FirstRBrace(s, i) ==
    IF i > Len(s) THEN 0
    ELSE IF s[i].t = "rbrace" THEN i
    ELSE FirstRBrace(s, i + 1)

\* the regex ACTION_JSON:\s*(\{[^}]*\}) tried at position i: the captured
\* group as <<from, to>>, or <<0, 0>> when it does not match there
MatchAt(s, i) ==
    IF ~IsMarker(s[i]) THEN <<0, 0>>
    ELSE LET j == SkipSpace(s, i + 1)
         IN IF j > Len(s) \/ s[j].t # "lbrace" THEN <<0, 0>>
            ELSE LET e == FirstRBrace(s, j + 1)
                 IN IF e = 0 THEN <<0, 0>> ELSE <<j, e>>

\* re.search: the leftmost position where the regex matches
RECURSIVE ReSearch(_, _)
ReSearch(s, i) ==
    IF i > Len(s) THEN <<0, 0>>
    ELSE IF MatchAt(s, i) # <<0, 0>> THEN MatchAt(s, i)
    ELSE ReSearch(s, i + 1)

NoSpace(s) == SelectSeq(s, LAMBDA x : ~IsSpace(x))

IsMemberTok(x) == x.t \in {"member", "nummember"}

\* the body of an object (whitespace removed) is member (, member)*
WellFormedBody(b) ==
    \/ Len(b) = 0
    \/ /\ Len(b) % 2 = 1
       /\ \A n \in 1..Len(b) :
             IF n % 2 = 1 THEN IsMemberTok(b[n]) ELSE b[n].t = "comma"

MemberValue(x) == IF x.t = "nummember" THEN NonString ELSE x.v

\* the dict of a well-formed body: a later member replaces an earlier one
\* with the same key
RECURSIVE BodyDict(_, _)
BodyDict(b, n) ==
    IF n = 0 THEN {}
    ELSE IF IsMemberTok(b[n])
         THEN DictPut(BodyDict(b, n - 1), b[n].k, MemberValue(b[n]))
         ELSE BodyDict(b, n - 1)

\* json.loads of the captured group "{ ... }": None stands for the
\* JSONDecodeError the function catches
JsonLoads(g) ==
    LET b == NoSpace(SubSeq(g, 2, Len(g) - 1))
    IN IF WellFormedBody(b) THEN Some(BodyDict(b, Len(b))) ELSE None

extract_action_from_response(ai_response) ==
    LET m == ReSearch(ai_response.toks, 1)
    IN IF m = <<0, 0>> THEN None
       ELSE JsonLoads(SubSeq(ai_response.toks, m[1], m[2]))

\* ------------------------------------------------------------------------
\* The extractor applied to every reply of at most MaxReplyLen tokens
\* ------------------------------------------------------------------------
VARIABLES x_reply, x_result, x_done

extractVars == <<x_reply, x_result, x_done>>

ExtractAlphabet ==
    {MARK, MARKLC, NL, LBRACE, RBRACE, COMMA,
     Member("intent", "search"), Key("params")}

ExtractIdle ==
    /\ x_reply = Text(<<>>, "en")
    /\ x_result = None
    /\ x_done = FALSE

ExtractCall ==
    /\ ~x_done
    /\ x_result' = extract_action_from_response(x_reply)
    /\ x_done' = TRUE
    /\ UNCHANGED x_reply

\* --- what claim C3 reads as "the marker followed by a single-line JSON
\* --- object": a balanced, possibly nested object without a line break
RECURSIVE SkipBlank(_, _)
SkipBlank(s, i) ==
    IF i <= Len(s) /\ s[i] = SP THEN SkipBlank(s, i + 1) ELSE i

RECURSIVE ObjectEnd(_, _), MembersEnd(_, _)
\* the index after the single-line object that starts at i, 0 if there is none
ObjectEnd(s, i) ==
    IF i > Len(s) \/ s[i].t # "lbrace" THEN 0
    ELSE LET j == SkipBlank(s, i + 1)
         IN IF j > Len(s) THEN 0
            ELSE IF s[j].t = "rbrace" THEN j + 1
            ELSE MembersEnd(s, j)
MembersEnd(s, j) ==
    IF j > Len(s) THEN 0
    ELSE LET n == IF s[j].t \in {"member", "nummember"} THEN j + 1
                  ELSE IF s[j].t = "key" THEN ObjectEnd(s, SkipBlank(s, j + 1))
                  ELSE 0
         IN IF n = 0 THEN 0
            ELSE LET c == SkipBlank(s, n)
                 IN IF c > Len(s) THEN 0
                    ELSE IF s[c].t = "rbrace" THEN c + 1
                    ELSE IF s[c].t = "comma" THEN MembersEnd(s, SkipBlank(s, c + 1))
                    ELSE 0

MarkerThenSingleLineObject(s) ==
    \E i \in 1..Len(s) :
        /\ s[i].t = "mark"
        /\ ObjectEnd(s, SkipSpace(s, i + 1)) # 0

\* C3 (as claimed): the extractor returns a parsed object exactly when the
\* reply contains the marker followed by a single-line JSON object, and None
\* for every other reply.
C3_AsClaimed ==
    x_done => (x_result.some <=> MarkerThenSingleLineObject(x_reply.toks))

\* --- what the regular expression accepts, stated with quantifiers
RegexGroup(s, i, j, e) ==
    /\ s[i].t = "mark"
    /\ i < j /\ j < e
    /\ \A n \in (i + 1)..(j - 1) : s[n].t = "ws"
    /\ s[j].t = "lbrace"
    /\ s[e].t = "rbrace"
    /\ \A n \in (j + 1)..(e - 1) : s[n].t # "rbrace"

RegexMatchesAt(s, i) ==
    \E j \in 1..Len(s), e \in 1..Len(s) : RegexGroup(s, i, j, e)

\* the members between j and e are a flat, comma-separated list
FlatMembers(s, j, e) ==
    LET idx == {n \in (j + 1)..(e - 1) : s[n].t # "ws"}
        Rank(n) == Cardinality({m \in idx : m <= n})
    IN /\ \A n \in idx :
             IF Rank(n) % 2 = 1 THEN s[n].t \in {"member", "nummember"}
             ELSE s[n].t = "comma"
       /\ idx # {} => Cardinality(idx) % 2 = 1

LastMembers(s, j, e) ==
    {<<s[n].k, IF s[n].t = "nummember" THEN NonString ELSE s[n].v>> :
        n \in {m \in (j + 1)..(e - 1) :
                  /\ s[m].t \in {"member", "nummember"}
                  /\ \A l \in (m + 1)..(e - 1) :
                        ~(s[l].t \in {"member", "nummember"} /\ s[l].k = s[m].k)}}

\* C3 (amended): the extractor looks at the FIRST place where the marker (in
\* any letter case) is followed by optional whitespace, "{" and a later "}";
\* it returns the parsed object exactly when the text from that "{" to the
\* first "}" after it is a flat JSON object (line breaks allowed), and None
\* for every other reply, also when a later marker has a well-formed object.
C3_Extract ==
    x_done =>
        LET s == x_reply.toks
            first == {i \in 1..Len(s) :
                         /\ RegexMatchesAt(s, i)
                         /\ \A h \in 1..(i - 1) : ~RegexMatchesAt(s, h)}
        IN /\ x_result.some <=>
                 \E i \in first, j \in 1..Len(s), e \in 1..Len(s) :
                     RegexGroup(s, i, j, e) /\ FlatMembers(s, j, e)
           /\ x_result.some =>
                 \E i \in first, j \in 1..Len(s), e \in 1..Len(s) :
                     /\ RegexGroup(s, i, j, e)
                     /\ x_result.data = LastMembers(s, j, e)
           /\ ~x_result.some => x_result = None

\* a reply whose object spans two lines was parsed
C3_Witness ==
    /\ x_done
    /\ x_result.some
    /\ x_result.data # {}
    /\ \E n \in 1..Len(x_reply.toks) : x_reply.toks[n] = NL

\* ------------------------------------------------------------------------
\* execute_system_action  (conversational_murf_ai.py 528-637)
\* ------------------------------------------------------------------------
\* str.lower() on the values the model uses
Lower(v) ==
    CASE v = "SEARCH" -> "search"
      [] v = "OPEN_APP" -> "open_app"
      [] OTHER -> v

\* the outcome of a piece of the function: the status it returns, the OS
\* actions it has performed, and whether an exception left it
Outcome(st, acts, exc) == [status |-> st, os |-> acts, raised |-> exc]

\* one OS call (webbrowser.open, subprocess.Popen, pyautogui, pyperclip):
\* it raises when the environment makes `cmd` fail
OsCall(cmd, failing, st) ==
    IF cmd \in failing THEN Outcome("", <<>>, TRUE)
    ELSE Outcome(st, <<cmd>>, FALSE)

\* lines 551-557: gedit, else nano, else vim; only FileNotFoundError of the
\* first two is caught
LinuxEditor(failing) ==
    IF "gedit" \notin failing THEN Outcome("ok", <<"gedit">>, FALSE)
    ELSE IF "nano" \notin failing THEN Outcome("ok", <<"nano">>, FALSE)
    ELSE OsCall("vim", failing, "ok")

\* lines 565-568: gnome-calculator, else xcalc
LinuxCalculator(failing) ==
    IF "gnome-calculator" \notin failing
    THEN Outcome("ok", <<"gnome-calculator">>, FALSE)
    ELSE OsCall("xcalc", failing, "ok")

NotImplemented == Outcome("not_implemented", <<>>, FALSE)

\* lines 537-577
OpenApp(d, platform, failing) ==
    LET raw == DictGet(d, "app", "")
        app == Lower(raw)
    IN IF raw = NonString THEN Outcome("", <<>>, TRUE)
       ELSE IF app \in {"chrome", "browser"}
            THEN OsCall("webbrowser:google", failing, "ok")
       ELSE IF app = "gmail" THEN OsCall("webbrowser:gmail", failing, "ok")
       ELSE IF app \in {"notepad", "editor", "text"}
            THEN IF platform = "win32" THEN OsCall("notepad.exe", failing, "ok")
                 ELSE IF platform = "darwin" THEN OsCall("TextEdit", failing, "ok")
                 ELSE LinuxEditor(failing)
       ELSE IF app \in {"calculator", "calc"}
            THEN IF platform = "win32" THEN OsCall("calc.exe", failing, "ok")
                 ELSE IF platform = "darwin" THEN OsCall("Calculator", failing, "ok")
                 ELSE LinuxCalculator(failing)
       ELSE IF app \in {"file", "files", "explorer"}
            THEN IF platform = "win32" THEN OsCall("explorer.exe", failing, "ok")
                 ELSE IF platform = "darwin" THEN OsCall("Finder", failing, "ok")
                 ELSE OsCall("nautilus", failing, "ok")
       ELSE NotImplemented

\* lines 579-599: a browser is opened when the argument is non-empty
\* (a non-string argument has no .replace / .startswith)
OpenUrl(d, key, cmd, failing) ==
    LET arg == DictGet(d, key, "")
    IN IF arg = "" THEN NotImplemented
       ELSE IF arg = NonString THEN Outcome("", <<>>, TRUE)
       ELSE OsCall(cmd, failing, "ok")

\* lines 614-618: pyautogui.write raises on a non-string before it types
TypeText(d, failing) ==
    LET text == DictGet(d, "text", "")
    IN IF text = "" THEN NotImplemented
       ELSE IF text = NonString THEN Outcome("", <<>>, TRUE)
       ELSE OsCall("pyautogui.write", failing, "ok")

\* lines 620-624: pyperclip.copy accepts a number, the text[:50] of the
\* status line then raises
CopyText(d, failing) ==
    LET text == DictGet(d, "text", "")
    IN IF text = "" THEN NotImplemented
       ELSE IF "pyperclip.copy" \in failing THEN Outcome("", <<>>, TRUE)
       ELSE IF text = NonString THEN Outcome("", <<"pyperclip.copy">>, TRUE)
       ELSE Outcome("ok", <<"pyperclip.copy">>, FALSE)

\* the body of the try block, lines 534-633
ExecuteBody(d, automation, platform, failing) ==
    LET raw == DictGet(d, "intent", "")
        intent == Lower(raw)
    IN IF raw = NonString THEN Outcome("", <<>>, TRUE)
       ELSE IF intent = "open_app" THEN OpenApp(d, platform, failing)
       ELSE IF intent = "search"
            THEN OpenUrl(d, "query", "webbrowser:search", failing)
       ELSE IF intent = "search_youtube"
            THEN OpenUrl(d, "query", "webbrowser:youtube", failing)
       ELSE IF intent = "open_website"
            THEN OpenUrl(d, "url", "webbrowser:url", failing)
       ELSE IF intent = "current_time" THEN Outcome("time", <<>>, FALSE)
       ELSE IF intent = "weather" THEN Outcome("weather", <<>>, FALSE)
       ELSE IF ~automation THEN Outcome("automation_disabled", <<>>, FALSE)
       ELSE IF intent = "type_text" THEN TypeText(d, failing)
       ELSE IF intent = "copy_text" THEN CopyText(d, failing)
       ELSE IF intent = "take_screenshot"
            THEN OsCall("pyautogui.screenshot", failing, "ok")
       ELSE NotImplemented

\* lines 533-637: the blanket except turns every exception into a status
execute_system_action(d, automation, platform, failing) ==
    LET r == ExecuteBody(d, automation, platform, failing)
    IN IF r.raised THEN Outcome("failed", r.os, FALSE) ELSE r

\* ------------------------------------------------------------------------
\* The dispatcher applied to every action dict of a bounded family
\* ------------------------------------------------------------------------
VARIABLES e_action, e_platform, e_failing, e_automation, e_out, e_done

executeVars == <<e_action, e_platform, e_failing, e_automation, e_out, e_done>>

KnownIntents ==
    {"open_app", "search", "search_youtube", "open_website", "current_time",
     "weather", "type_text", "copy_text", "take_screenshot"}

Platforms == {"win32", "darwin", "linux"}

Opt(key, vals) == {{}} \cup {{<<key, v>>} : v \in vals}

ExecDicts ==
    {a \cup b \cup c \cup u \cup t :
        a \in Opt("intent", KnownIntents \cup {"SEARCH", "dance", NonString}),
        b \in Opt("app", {"chrome", "gmail", "notepad", "calculator", "files", "paint"}),
        c \in Opt("query", {"cats"}),
        u \in Opt("url", {"x.com", "https://x.com"}),
        t \in Opt("text", {"abc", NonString})}

ExecFailures == SUBSET {"gedit", "nano", "vim", "webbrowser:search"}

ExecuteIdle ==
    /\ e_action = {}
    /\ e_platform = "linux"
    /\ e_failing = {}
    /\ e_automation = FALSE
    /\ e_out = Outcome("", <<>>, FALSE)
    /\ e_done = FALSE

ExecuteCall ==
    /\ ~e_done
    /\ e_out' = execute_system_action(e_action, e_automation, e_platform, e_failing)
    /\ e_done' = TRUE
    /\ UNCHANGED <<e_action, e_platform, e_failing, e_automation>>

StatusKinds ==
    {"ok", "time", "weather", "automation_disabled", "not_implemented", "failed"}

\* C4 (as claimed): for any action dict the dispatcher performs at most one
\* OS action, returns a status and never raises; a (string) intent outside
\* the fixed set performs no OS action and yields the "not implemented"
\* status, with AUTOMATION_AVAILABLE set or not.
C4_AsClaimed ==
    e_done =>
        /\ ~e_out.raised
        /\ e_out.status \in StatusKinds
        /\ Len(e_out.os) <= 1
        /\ LET raw == DictGet(e_action, "intent", "")
           IN (raw # NonString /\ Lower(raw) \notin KnownIntents) =>
                  (e_out.os = <<>> /\ e_out.status = "not_implemented")

\* ------------------------------------------------------------------------
\* detect_language_and_choose_voice  (conversational_murf_ai.py 448-508)
\* ------------------------------------------------------------------------
DefaultVoice == "en-IN-priya"
CommandVoice == "en-IN-aarav"
DevanagariVoice == "hi-IN-ayushi"

\* line 490
hindi_voices ==
    <<"hi-IN-ayushi", "hi-IN-amit", "hi-IN-shweta", "hi-IN-shaan",
      "hi-IN-rahul", "hi-IN-kabir">>

\* lines 466-472
hindi_patterns ==
    {"aap", "kaise", "theek", "bilkul", "zaroor", "accha", "nahi", "hai", "hoon",
     "kya", "mera", "tera", "uska", "hamara", "tumhara", "kab", "kahan", "kyun",
     "kaun", "main", "tum", "hum", "voh", "yeh", "woh", "jo", "agar", "lekin",
     "par", "namaste", "dhanyawad", "shukriya", "maaf", "kijiye", "please",
     "baat", "samay", "ghar", "paisa", "kaam", "logo", "dost", "family",
     "khana", "pani", "sapna"}

DEV == Word("namaste in Devanagari script")

\* the patterns and keywords that occur as substrings of the (lower-cased)
\* characters of a token; no pattern straddles two tokens of the model
Substrings(x) ==
    CASE x.t = "key" /\ x.k = "params" -> {"par"}
      [] x.t \in {"word", "member"} /\ x.v = "kaise" -> {"kaise"}
      [] x.t \in {"word", "member"} /\ x.v = "tumhara" -> {"tumhara", "tum"}
      [] x.t \in {"word", "member"} /\ x.v = "please" -> {"please"}
      [] x.t \in {"word", "member"} /\ x.v = "family" -> {"family"}
      [] x.t \in {"word", "member"} /\ x.v = "help" -> {"help"}
      [] x.t \in {"word", "member"} /\ x.v = "find" -> {"find"}
      [] x.t \in {"word", "member"} /\ x.v \in {"open", "open_app", "open_website"}
            -> {"open"}
      [] x.t \in {"word", "member"} /\ x.v \in {"search", "search_youtube"}
            -> {"search"}
      [] OTHER -> {}

\* 'ऀ' <= char <= 'ॿ'
IsDevanagari(x) == x = DEV

\* the number of characters of a token, capped at 3: only len(..) >= 3 is
\* ever asked, and the cap leaves that answer unchanged
CharLen(x) ==
    IF x.t \in {"ws", "lbrace", "rbrace", "comma"} THEN 1
    ELSE IF x = Word("ok") THEN 2
    ELSE 3

\* text.strip()
RECURSIVE StripLeft(_)
StripLeft(s) ==
    IF s # <<>> /\ IsSpace(Head(s)) THEN StripLeft(Tail(s)) ELSE s

RECURSIVE StripRight(_)
StripRight(s) ==
    IF s # <<>> /\ IsSpace(s[Len(s)])
    THEN StripRight(SubSeq(s, 1, Len(s) - 1))
    ELSE s

Strip(s) == StripRight(StripLeft(s))

RECURSIVE TextLen(_)
TextLen(s) == IF s = <<>> THEN 0 ELSE CharLen(Head(s)) + TextLen(Tail(s))

\* pattern in clean_text
InText(pattern, s) == \E n \in 1..Len(s) : pattern \in Substrings(s[n])

\* line 475
HindiScore(s) == Cardinality({q \in hindi_patterns : InText(q, s)})

\* a mutant: the library is asked whatever the length of the text
DetectedLangAlwaysAsked(text, clean) ==
    IF text.lang = "raise" THEN "en" ELSE text.lang

\* a mutant: the inner except is missing, a raising detector is no answer
DetectedLangRaiseKept(text, clean) ==
    IF TextLen(clean) >= 3 THEN text.lang ELSE "en"

\* lines 478-484: the library is asked for texts of at least 3 characters;
\* a text it raises on counts as English
DetectedLang(text, clean) ==
    IF TextLen(clean) >= 3
    THEN IF text.lang = "raise" THEN "en" ELSE text.lang
    ELSE "en"

\* lines 493-500
EnglishVoice(clean) ==
    IF InText("please", clean) \/ InText("help", clean) THEN DefaultVoice
    ELSE IF InText("search", clean) \/ InText("open", clean) \/ InText("find", clean)
         THEN CommandVoice
    ELSE DefaultVoice

\* a mutant: the keyword count is looked at before the script
detect_keywords_before_script(text, current_voice, langdetect_available) ==
    IF ~langdetect_available \/ Strip(text.toks) = <<>> THEN current_voice
    ELSE LET clean == Strip(text.toks)
             hindi_score == HindiScore(clean)
             detected_lang == DetectedLang(text, clean)
         IN IF detected_lang = "hi" \/ hindi_score >= 2
            THEN hindi_voices[(hindi_score % Len(hindi_voices)) + 1]
            ELSE IF \E n \in 1..Len(text.toks) : IsDevanagari(text.toks[n])
                 THEN DevanagariVoice
            ELSE IF detected_lang = "en" THEN EnglishVoice(clean)
            ELSE DefaultVoice

detect_language_and_choose_voice(text, current_voice, langdetect_available) ==
    IF ~langdetect_available \/ Strip(text.toks) = <<>> THEN current_voice
    ELSE LET clean == Strip(text.toks)
             hindi_score == HindiScore(clean)
             detected_lang == DetectedLang(text, clean)
         IN IF \E n \in 1..Len(text.toks) : IsDevanagari(text.toks[n])
            THEN DevanagariVoice
            ELSE IF detected_lang = "hi" \/ hindi_score >= 2
                 THEN hindi_voices[(hindi_score % Len(hindi_voices)) + 1]
            ELSE IF detected_lang = "en" THEN EnglishVoice(clean)
            ELSE DefaultVoice

\* ------------------------------------------------------------------------
\* The selector applied to every text of at most MaxTextLen tokens; as in
\* send_quick_message (1422-1424) the caller, never the selector, assigns
\* the window's current_voice
\* ------------------------------------------------------------------------
VARIABLES d_text, d_voice, d_available, d_results, d_window_voice

detectVars == <<d_text, d_voice, d_available, d_results, d_window_voice>>

DetectAlphabet ==
    {SP, Word("ok"), Word("kaise"), Word("tumhara"), Word("please"),
     Word("open"), DEV}

DetectIdle ==
    /\ d_text = Text(<<>>, "en")
    /\ d_voice = DefaultVoice
    /\ d_available = FALSE
    /\ d_results = <<>>
    /\ d_window_voice = DefaultVoice

\* a mutant: the selector stores its choice in the window itself
DetectCallAssigning ==
    /\ Len(d_results) < MaxCalls
    /\ d_results' =
          Append(d_results,
                 detect_language_and_choose_voice(d_text, d_voice, d_available))
    /\ d_window_voice' =
          detect_language_and_choose_voice(d_text, d_voice, d_available)
    /\ UNCHANGED <<d_text, d_voice, d_available>>

\* one call detect_language_and_choose_voice(text, current_voice)
DetectCall ==
    /\ Len(d_results) < MaxCalls
    /\ d_results' =
          Append(d_results,
                 detect_language_and_choose_voice(d_text, d_voice, d_available))
    /\ UNCHANGED <<d_text, d_voice, d_available, d_window_voice>>

\* lines 1423-1424: the caller stores a result that differs
CallerAssign ==
    /\ d_results # <<>>
    /\ d_results[Len(d_results)] # d_window_voice
    /\ d_window_voice' = d_results[Len(d_results)]
    /\ UNCHANGED <<d_text, d_voice, d_available, d_results>>

\* --- the vocabulary of claims C6-C9, stated on the input alone
D_Blank == \A n \in 1..Len(d_text.toks) : d_text.toks[n].t = "ws"
D_HasDevanagari == \E n \in 1..Len(d_text.toks) : d_text.toks[n] = DEV
D_Score ==
    Cardinality({q \in hindi_patterns :
                    \E n \in 1..Len(d_text.toks) : q \in Substrings(d_text.toks[n])})
D_Has(word) == \E n \in 1..Len(d_text.toks) : word \in Substrings(d_text.toks[n])
\* the stripped text has at least 3 characters: the library is asked
D_Asked ==
    \/ \E n \in 1..Len(d_text.toks) :
          d_text.toks[n].t # "ws" /\ d_text.toks[n] # Word("ok")
    \/ \E m, n \in 1..Len(d_text.toks) :
          m < n /\ d_text.toks[m].t # "ws" /\ d_text.toks[n].t # "ws"
D_Runs == d_available /\ ~D_Blank /\ ~D_HasDevanagari
D_HindiVoices == {hindi_voices[n] : n \in 1..Len(hindi_voices)}
\* the voice an English text gets
D_EnglishChoice ==
    IF D_Score >= 2 THEN hindi_voices[(D_Score % 6) + 1]
    ELSE IF (D_Has("search") \/ D_Has("open") \/ D_Has("find"))
            /\ ~D_Has("please") /\ ~D_Has("help")
         THEN CommandVoice
    ELSE DefaultVoice

C7_AsClaimed ==
    (d_results # <<>> /\ D_HasDevanagari) => d_results[1] = DevanagariVoice

\* C7 (amended): when the language-detection library is available, a text
\* with a Devanagari character gets hi-IN-ayushi, whatever the keyword
\* count, current_voice and the library's answer; without the library the
\* selector returns current_voice.
C7_Devanagari ==
    (d_results # <<>> /\ D_HasDevanagari) =>
        d_results[1] = IF d_available THEN DevanagariVoice ELSE d_voice

\* Devanagari with two keywords, an English verdict and another current voice
C7_Witness ==
    /\ d_results # <<>>
    /\ D_HasDevanagari /\ d_available
    /\ D_Score >= 2
    /\ d_text.lang = "en"
    /\ d_voice # DevanagariVoice
    /\ d_results[1] = DevanagariVoice

\* the library was asked and raised
D_DetectorRaised == D_Runs /\ D_Asked /\ d_text.lang = "raise"

\* C8 (as claimed): blank text, a missing library or a raising detector all
\* give back the caller's current_voice.
C8_AsClaimed ==
    (d_results # <<>> /\ (D_Blank \/ ~d_available \/ D_DetectorRaised)) =>
        d_results[1] = d_voice

\* C8 (amended): blank text or a missing library give back the caller's
\* current_voice; a raising detector is taken as the answer "en", so the
\* result is the voice of an English text (a Hindi voice from a keyword
\* count of 2, en-IN-aarav or en-IN-priya otherwise), not current_voice.
C8_Fallback ==
    d_results # <<>> =>
        /\ (D_Blank \/ ~d_available) => d_results[1] = d_voice
        /\ D_DetectorRaised => d_results[1] = D_EnglishChoice

\* the detector raised and the caller's voice was not kept
C8_Witness ==
    /\ d_results # <<>>
    /\ D_DetectorRaised
    /\ d_results[1] # d_voice

VARIABLES
    program,               \* which of the scripts is running
    github_token,          \* "real" or "placeholder" (demo mode)
    conversation_history,  \* ConversationalAI.conversation_history
    user_message,          \* the client's user_message field
    ai_pc,                 \* where the client's run() / coroutine stands
    payload,               \* the "messages" of the request last posted
    outbox,                \* signals emitted / values returned, not yet handled
    run_message,           \* ghost: the user message run() read
    recent,                \* ghost: the last KeepLast entries appended to the history
    appended,              \* ghost: how many entries were appended since a clear
    cleared_mid_run,       \* ghost: clear_history ran between append and post
    requests               \* ghost: how many requests were submitted

chatVars ==
    <<program, github_token, conversation_history, user_message, ai_pc, payload,
      outbox, run_message, recent, appended, cleared_mid_run, requests>>

\* line 720: len(self.conversation_history) > 11
HistoryLimit == 11
\* line 721: self.conversation_history[-10:]
KeepLast == 10
\* app.py 996, murf_ai_assistant.py 608: self.conversation_history[-5:]
ContextLast == 5

NoText == Text(<<>>, "en")
SystemPrompt == Text(<<Word("You are JARVIS")>>, "en")
Msg(role, content) == [role |-> role, content |-> content]
SystemEntry == Msg("system", SystemPrompt)

LastN(s, n) == IF Len(s) <= n THEN s ELSE SubSeq(s, Len(s) - n + 1, Len(s))

\* a signal of a QThread client, or the value chat_completion returns; cause
\* is a ghost: what the request ended with
Signal(sig, text, cause) == [sig |-> sig, text |-> text, cause |-> cause]

ApiErrorText == Text(<<Word("API Error: status - body")>>, "en")
ProcessingErrorText == Text(<<Word("Error processing message")>>, "en")

HasWord(text, w) == \E n \in 1..Len(text.toks) : text.toks[n] = Word(w)

\* --- the canned replies
CannedGreeting == Text(<<Word("hello"), SP, Word("canned greeting")>>, "en")
CannedHelp == Text(<<Word("canned"), SP, Word("help")>>, "en")
CannedEcho == Text(<<Word("canned echo of the input")>>, "en")
CannedChrome ==
    Text(<<MARK, SP, LBRACE, Member("intent", "open_app"), COMMA, SP,
           Member("app", "chrome"), RBRACE, NL, Word("chrome"), SP,
           Word("khol raha hoon")>>, "hi")
CannedFallbacks ==
    {Text(<<Word("Acha"), SP, Word("canned echo of the input")>>, "hi"),
     Text(<<Word("Bilkul theek kaha")>>, "hi"),
     Text(<<Word("Interesting")>>, "en")}

\* app.py 170-184 and simple_app.py 100-121: the first keyword found in the
\* input picks the reply
_generate_demo_response(user_input) ==
    IF HasWord(user_input, "hello") THEN CannedGreeting
    ELSE IF HasWord(user_input, "help") THEN CannedHelp
    ELSE CannedEcho

\* conversational_murf_ai.py 762-839: the replies the input can get (the
\* last resort is random.choice of three)
_generate_contextual_demo_response(user_input) ==
    IF HasWord(user_input, "open") /\ HasWord(user_input, "chrome")
    THEN {CannedChrome}
    ELSE IF HasWord(user_input, "hello") THEN {CannedGreeting}
    ELSE IF HasWord(user_input, "help") THEN {CannedHelp}
    ELSE CannedFallbacks

CannedReplies ==
    {CannedGreeting, CannedHelp, CannedEcho, CannedChrome} \cup CannedFallbacks

ChatIdle ==
    /\ program = "none"
    /\ github_token = "placeholder"
    /\ conversation_history = <<>>
    /\ user_message = NoText
    /\ ai_pc = "idle"
    /\ payload = <<>>
    /\ outbox = <<>>
    /\ run_message = NoText
    /\ recent = <<>>
    /\ appended = 0
    /\ cleared_mid_run = FALSE
    /\ requests = 0

\* QThread.isRunning(): from start() until run() has returned
isRunning == ai_pc # "idle"

Emit(sig) == outbox' = Append(outbox, sig)

\* --- ConversationalAI -----------------------------------------------------
\* a mutant: one entry too many survives ([h[0]] + h[-11:])
TruncateKeepsEleven(h) ==
    IF Len(h) > HistoryLimit THEN <<h[1]>> \o LastN(h, KeepLast + 1) ELSE h

\* lines 720-721
Truncate(h) ==
    IF Len(h) > HistoryLimit THEN <<h[1]>> \o LastN(h, KeepLast) ELSE h

\* lines 1446-1448 (and simple_app.py 380-381, where start() on a running
\* thread does nothing): set_message, then start unless running
AiSubmit(message) ==
    /\ user_message' = message
    /\ ai_pc' = IF isRunning THEN ai_pc ELSE "started"

\* lines 706-721: demo mode answers at once; otherwise the user message is
\* appended and the history cut to the system prompt and the last ten
ConvRunAppend ==
    /\ program = "conversational"
    /\ ai_pc = "started"
    /\ IF github_token = "placeholder"
       THEN /\ \E r \in _generate_contextual_demo_response(user_message) :
                  Emit(Signal("response_ready", r, "demo"))
            /\ ai_pc' = "emitted"
            /\ UNCHANGED <<conversation_history, run_message, recent, appended,
                           cleared_mid_run>>
       ELSE /\ conversation_history' =
                  Truncate(Append(conversation_history, Msg("user", user_message)))
            /\ run_message' = user_message
            /\ recent' = LastN(Append(recent, Msg("user", user_message)), KeepLast)
            /\ appended' = appended + 1
            /\ cleared_mid_run' = FALSE
            /\ ai_pc' = "appended"
            /\ UNCHANGED outbox
    /\ UNCHANGED <<program, github_token, user_message, payload, requests>>

\* lines 724-741: the request is built from the history as it is now
ConvRunPost ==
    /\ program = "conversational"
    /\ ai_pc = "appended"
    /\ payload' = conversation_history
    /\ ai_pc' = "posted"
    /\ UNCHANGED <<program, github_token, conversation_history, user_message,
                   outbox, run_message, recent, appended, cleared_mid_run, requests>>

\* lines 743-751
ConvRespondOk(reply) ==
    /\ program = "conversational"
    /\ ai_pc = "posted"
    /\ conversation_history' = Append(conversation_history, Msg("assistant", reply))
    /\ recent' = LastN(Append(recent, Msg("assistant", reply)), KeepLast)
    /\ appended' = appended + 1
    /\ Emit(Signal("response_ready", reply, "ok"))
    /\ ai_pc' = "emitted"
    /\ UNCHANGED <<program, github_token, user_message, payload, run_message,
                   cleared_mid_run, requests>>

\* a mutant: a failed request is answered with a canned reply
ConvRespondStatusCanned ==
    /\ program = "conversational"
    /\ ai_pc = "posted"
    /\ \E r \in _generate_contextual_demo_response(run_message) :
          Emit(Signal("response_ready", r, "status"))
    /\ ai_pc' = "emitted"
    /\ UNCHANGED <<program, github_token, conversation_history, user_message,
                   payload, run_message, recent, appended, cleared_mid_run, requests>>

\* lines 752-755: a status other than 200
ConvRespondStatus ==
    /\ program = "conversational"
    /\ ai_pc = "posted"
    /\ Emit(Signal("error_occurred", ApiErrorText, "status"))
    /\ ai_pc' = "emitted"
    /\ UNCHANGED <<program, github_token, conversation_history, user_message,
                   payload, run_message, recent, appended, cleared_mid_run, requests>>

\* lines 757-760: the post, or reading the reply, raised
ConvRaise ==
    /\ program = "conversational"
    /\ ai_pc = "posted"
    /\ Emit(Signal("error_occurred", ProcessingErrorText, "exception"))
    /\ ai_pc' = "emitted"
    /\ UNCHANGED <<program, github_token, conversation_history, user_message,
                   payload, run_message, recent, appended, cleared_mid_run, requests>>

\* run() has returned: the thread is no longer running
RunFinish ==
    /\ program \in {"conversational", "simple"}
    /\ ai_pc = "emitted"
    /\ ai_pc' = "idle"
    /\ UNCHANGED <<program, github_token, conversation_history, user_message,
                   payload, outbox, run_message, recent, appended, cleared_mid_run,
                   requests>>

\* lines 700-702
clear_history ==
    /\ conversation_history' = <<SystemEntry>>
    /\ recent' = <<>>
    /\ appended' = 0
    /\ cleared_mid_run' = (cleared_mid_run \/ ai_pc = "appended")

\* --- simple_app.py GitHubModelsClient ---------------------------------------
\* lines 55-76: the request holds the one user message; demo mode answers
\* at once
SimpleRunBegin ==
    /\ program = "simple"
    /\ ai_pc = "started"
    /\ payload' = <<Msg("user", user_message)>>
    /\ run_message' = user_message
    /\ IF github_token = "placeholder"
       THEN /\ Emit(Signal("response_ready", _generate_demo_response(user_message),
                           "demo"))
            /\ ai_pc' = "emitted"
       ELSE /\ ai_pc' = "posted"
            /\ UNCHANGED outbox
    /\ UNCHANGED <<program, github_token, conversation_history, user_message,
                   recent, appended, cleared_mid_run, requests>>

\* lines 86-89
SimpleRespondOk(reply) ==
    /\ program = "simple"
    /\ ai_pc = "posted"
    /\ Emit(Signal("response_ready", reply, "ok"))
    /\ ai_pc' = "emitted"
    /\ UNCHANGED <<program, github_token, conversation_history, user_message,
                   payload, run_message, recent, appended, cleared_mid_run, requests>>

\* lines 90-93
SimpleRespondStatus ==
    /\ program = "simple"
    /\ ai_pc = "posted"
    /\ Emit(Signal("error_occurred", ApiErrorText, "status"))
    /\ ai_pc' = "emitted"
    /\ UNCHANGED <<program, github_token, conversation_history, user_message,
                   payload, run_message, recent, appended, cleared_mid_run, requests>>

\* lines 95-98
SimpleRaise ==
    /\ program = "simple"
    /\ ai_pc = "posted"
    /\ Emit(Signal("error_occurred", ProcessingErrorText, "exception"))
    /\ ai_pc' = "emitted"
    /\ UNCHANGED <<program, github_token, conversation_history, user_message,
                   payload, run_message, recent, appended, cleared_mid_run, requests>>

\* --- app.py GitHubModelsClient.chat_completion ------------------------------
HelloText == Text(<<Word("hello")>>, "en")

\* messages[-1]["content"]; on an empty list the IndexError lands in the
\* except branch, which answers for "Hello" (lines 167-169)
AppFallback(messages) ==
    IF messages = <<>> THEN _generate_demo_response(HelloText)
    ELSE _generate_demo_response(messages[Len(messages)].content)

\* lines 134-151: the call; demo mode returns at once
AppChatBegin(messages) ==
    /\ program = "app"
    /\ ai_pc = "idle"
    /\ outbox = <<>>
    /\ requests < MaxRequests
    /\ requests' = requests + 1
    /\ payload' = messages
    /\ IF github_token = "placeholder"
       THEN /\ Emit(Signal("return", AppFallback(messages), "demo"))
            /\ UNCHANGED ai_pc
       ELSE /\ ai_pc' = "posted"
            /\ UNCHANGED outbox
    /\ UNCHANGED <<program, github_token, conversation_history, user_message,
                   run_message, recent, appended, cleared_mid_run>>

\* lines 159-161
AppRespondOk(reply) ==
    /\ program = "app"
    /\ ai_pc = "posted"
    /\ Emit(Signal("return", reply, "ok"))
    /\ ai_pc' = "idle"
    /\ UNCHANGED <<program, github_token, conversation_history, user_message,
                   payload, run_message, recent, appended, cleared_mid_run, requests>>

\* lines 162-164: a status other than 200
AppRespondStatus ==
    /\ program = "app"
    /\ ai_pc = "posted"
    /\ Emit(Signal("return", AppFallback(payload), "status"))
    /\ ai_pc' = "idle"
    /\ UNCHANGED <<program, github_token, conversation_history, user_message,
                   payload, run_message, recent, appended, cleared_mid_run, requests>>

\* lines 166-169
AppRaise ==
    /\ program = "app"
    /\ ai_pc = "posted"
    /\ Emit(Signal("return", AppFallback(payload), "exception"))
    /\ ai_pc' = "idle"
    /\ UNCHANGED <<program, github_token, conversation_history, user_message,
                   payload, run_message, recent, appended, cleared_mid_run, requests>>

\* --- the clients driven on their own ----------------------------------------
ChatUserTexts ==
    {Text(<<Word("hello")>>, "en"),
     Text(<<Word("open"), SP, Word("chrome")>>, "en")}
ChatReplies == {Text(<<Word("thanks")>>, "en")}
AppMessageLists ==
    {<<>>} \cup {<<Msg("user", t)>> : t \in ChatUserTexts}
           \cup {<<Msg("assistant", r), Msg("user", t)>> :
                    r \in ChatReplies, t \in ChatUserTexts}

\* the caller of a QThread client, once its slot has taken the previous
\* outcome: set_message(message); start()
ChatRequest(message) ==
    /\ program \in {"conversational", "simple"}
    /\ outbox = <<>>
    /\ requests < MaxRequests
    /\ requests' = requests + 1
    /\ AiSubmit(message)
    /\ UNCHANGED <<program, github_token, conversation_history, payload, outbox,
                   run_message, recent, appended, cleared_mid_run>>

\* the caller clears the history
ChatClear ==
    /\ program = "conversational"
    /\ clear_history
    /\ UNCHANGED <<program, github_token, user_message, ai_pc, payload, outbox,
                   run_message, requests>>

\* the slot connected to the signal (or the awaiting caller) takes it
SlotRuns ==
    /\ outbox # <<>>
    /\ outbox' = Tail(outbox)
    /\ UNCHANGED <<program, github_token, conversation_history, user_message,
                   ai_pc, payload, run_message, recent, appended, cleared_mid_run,
                   requests>>

IsError(sig) == sig.cause \in {"status", "exception"}

\* C2 (as claimed): in every client, a request that fails (a status other
\* than 200, an exception) is answered with a canned reply, never with an
\* error outcome.
C2_AsClaimed ==
    \A n \in 1..Len(outbox) :
        IsError(outbox[n]) =>
            /\ outbox[n].sig # "error_occurred"
            /\ outbox[n].text \in CannedReplies

\* C2 (amended): only app.py's chat_completion answers a failed request
\* with a canned reply (the demo reply to the last message, or to "Hello"
\* when there is none); ConversationalAI.run and simple_app.py's
\* GitHubModelsClient.run emit error_occurred with an error text and no
\* reply, and ConversationalAI adds no assistant entry to its history.
C2_Fallback ==
    \A n \in 1..Len(outbox) :
        IsError(outbox[n]) =>
            IF program = "app"
            THEN /\ outbox[n].sig = "return"
                 /\ outbox[n].text \in {CannedGreeting, CannedHelp, CannedEcho}
            ELSE /\ outbox[n].sig = "error_occurred"
                 /\ outbox[n].text \in {ApiErrorText, ProcessingErrorText}
                 /\ (n = Len(outbox) /\ ai_pc = "emitted"
                     /\ program = "conversational" /\ ~cleared_mid_run) =>
                        conversation_history[Len(conversation_history)].role # "assistant"

\* ConversationalAI has answered a failed request with error_occurred
C2_Witness ==
    /\ program = "conversational"
    /\ \E n \in 1..Len(outbox) :
          outbox[n].cause = "status" /\ outbox[n].sig = "error_occurred"

\* ------------------------------------------------------------------------
\* The window  (conversational_murf_ai.py ConversationalMurfAI, 918-1842)
\* Its handlers run one at a time on the GUI thread; the ConversationalAI
\* thread above runs beside them and reaches them through queued signals.
\* ------------------------------------------------------------------------
VARIABLES
    conversation_messages, \* the list of ConversationMessage
    current_voice,
    voice_combo,           \* currentData() of the voice combo box
    auto_speak,
    auto_voice_switch,
    conversation_count,
    progress_visible,      \* progress_bar.isVisible()
    send_enabled,          \* send_btn.isEnabled()
    dialog_open,           \* the "Clear Conversation" question is on screen
    tts_pending,           \* SpeechWorker results not yet delivered
    audio_pc,              \* the AudioPlayer thread
    voice_pc,              \* the VoiceInputWorker thread
    pygame_available,      \* AudioPlayer.pygame_available
    clicks,                \* ghost: how many times the user acted on a control
    w_op,                  \* ghost: the handler that ran last
    w_last                 \* ghost: what the last on_ai_response did

windowVars ==
    <<conversation_messages, current_voice, voice_combo, auto_speak,
      auto_voice_switch, conversation_count, progress_visible, send_enabled,
      dialog_open, tts_pending, audio_pc, voice_pc, pygame_available, clicks,
      w_op, w_last>>

\* lines 130-138; content is kept as its fixed prefix and the rest.  No
\* caller passes has_audio=True, so voice_id is None at construction; the
\* timestamp and processing time are not modelled
ConversationMessage(role, prefix, body) ==
    [role |-> role, prefix |-> prefix, body |-> body, has_audio |-> FALSE]

\* a mutant: the list is kept to its last three entries
add_conversation_message_capped(msgs, role, prefix, body) ==
    LastN(Append(msgs, ConversationMessage(role, prefix, body)), 3)

\* lines 1363-1407
add_conversation_message(msgs, role, prefix, body) ==
    Append(msgs, ConversationMessage(role, prefix, body))

VoiceText(v) == Text(<<Word(v)>>, "en")
WelcomeMessage == ConversationMessage("system", "Welcome", NoText)
DemoModeMessage == ConversationMessage("system", "Running in demo mode", NoText)
ConnectedMessage == ConversationMessage("system", "Connected", NoText)
ClearedMessage == ConversationMessage("system", "Conversation cleared", NoText)

NoResponse == [reply |-> NoText, action |-> None, os |-> <<>>, before |-> 0]

WindowIdle ==
    /\ conversation_messages = <<>>
    /\ current_voice = DefaultVoice
    /\ voice_combo = "hi-IN-amit"
    /\ auto_speak = TRUE
    /\ auto_voice_switch = TRUE
    /\ conversation_count = 0
    /\ progress_visible = FALSE
    /\ send_enabled = TRUE
    /\ dialog_open = FALSE
    /\ tts_pending = 0
    /\ audio_pc = "idle"
    /\ voice_pc = "idle"
    /\ pygame_available = FALSE
    /\ clicks = 0
    /\ w_op = "none"
    /\ w_last = NoResponse

\* lines 1421-1433 and 1463-1477: the voice after the smart selection, and
\* the note added when it differs (no item text of the combo holds a voice
\* id, so the combo stays as it is)
SmartVoice(text) ==
    IF auto_voice_switch
    THEN detect_language_and_choose_voice(text, current_voice, d_available)
    ELSE current_voice

NoteSwitch(msgs, text, prefix) ==
    IF SmartVoice(text) # current_voice
    THEN add_conversation_message(msgs, "system", prefix, VoiceText(SmartVoice(text)))
    ELSE msgs

\* --- the voice selector ---------------------------------------------------------
\* Texts are looked at character by character here: Python's `in` on two
\* strings is a search for a run of characters.
IsSubstring(p, s) ==
    \E i \in 0..(Len(s) - Len(p)) : SubSeq(s, i + 1, i + Len(p)) = p

\* the characters of a voice id
IdChars(voice_id) ==
    CASE voice_id = "hi-IN-amit" -> <<"h", "i", "-", "I", "N", "-", "a", "m", "i", "t">>
      [] voice_id = "hi-IN-ayushi" -> <<"h", "i", "-", "I", "N", "-", "a", "y", "u",
          "s", "h", "i">>
      [] voice_id = "hi-IN-shaan" -> <<"h", "i", "-", "I", "N", "-", "s", "h", "a",
          "a", "n">>
      [] voice_id = "hi-IN-rahul" -> <<"h", "i", "-", "I", "N", "-", "r", "a", "h",
          "u", "l">>
      [] voice_id = "hi-IN-shweta" -> <<"h", "i", "-", "I", "N", "-", "s", "h", "w",
          "e", "t", "a">>
      [] voice_id = "hi-IN-kabir" -> <<"h", "i", "-", "I", "N", "-", "k", "a", "b",
          "i", "r">>
      [] voice_id = "en-IN-priya" -> <<"e", "n", "-", "I", "N", "-", "p", "r", "i",
          "y", "a">>
      [] voice_id = "en-IN-aarav" -> <<"e", "n", "-", "I", "N", "-", "a", "a", "r",
          "a", "v">>
      [] voice_id = "en-US-terrell" -> <<"e", "n", "-", "U", "S", "-", "t", "e", "r",
          "r", "e", "l", "l">>

\* lines 1069-1072: one item per voice of the table (165-181; the ten voices
\* after en-US-terrell are built the same way), its text
\* f"{name} ({accent} {gender})" and its data the voice id
ComboItems ==
    <<[data |-> "hi-IN-amit",
       text |-> <<"A", "m", "i", "t", " ", "(", "I", "n", "d", "i", "a", "n", " ", "M",
          "a", "l", "e", ")">>],
      [data |-> "hi-IN-ayushi",
       text |-> <<"A", "y", "u", "s", "h", "i", " ", "(", "I", "n", "d", "i", "a", "n",
          " ", "F", "e", "m", "a", "l", "e", ")">>],
      [data |-> "hi-IN-shaan",
       text |-> <<"S", "h", "a", "a", "n", " ", "(", "I", "n", "d", "i", "a", "n", " ",
          "M", "a", "l", "e", ")">>],
      [data |-> "hi-IN-rahul",
       text |-> <<"R", "a", "h", "u", "l", " ", "(", "I", "n", "d", "i", "a", "n", " ",
          "M", "a", "l", "e", ")">>],
      [data |-> "hi-IN-shweta",
       text |-> <<"S", "h", "w", "e", "t", "a", " ", "(", "I", "n", "d", "i", "a", "n",
          " ", "F", "e", "m", "a", "l", "e", ")">>],
      [data |-> "hi-IN-kabir",
       text |-> <<"K", "a", "b", "i", "r", " ", "(", "I", "n", "d", "i", "a", "n", " ",
          "M", "a", "l", "e", ")">>],
      [data |-> "en-IN-priya",
       text |-> <<"P", "r", "i", "y", "a", " ", "(", "I", "n", "d", "i", "a", "n", " ",
          "F", "e", "m", "a", "l", "e", ")">>],
      [data |-> "en-IN-aarav",
       text |-> <<"A", "a", "r", "a", "v", " ", "(", "I", "n", "d", "i", "a", "n", " ",
          "E", "n", "g", "l", "i", "s", "h", " ", "M", "a", "l", "e", ")">>],
      [data |-> "en-US-terrell",
       text |-> <<"T", "e", "r", "r", "e", "l", "l", " ", "(", "U", "S", " ", "M", "a",
          "l", "e", ")">>]>>

\* lines 1426-1429 and 1468-1471: the first item whose text contains the voice
\* id becomes the current one; currentData() after the loop
SelectorAfter(selected, smart_voice) ==
    LET hits == {i \in 1..Len(ComboItems) :
                    IsSubstring(IdChars(smart_voice), ComboItems[i].text)}
    IN IF hits = {} THEN selected
       ELSE ComboItems[CHOOSE i \in hits : \A j \in hits : i <= j].data

\* the selector after the automatic switch of a handler for the given text
SwitchSelector(text) ==
    IF SmartVoice(text) # current_voice
    THEN SelectorAfter(voice_combo, SmartVoice(text))
    ELSE voice_combo

\* a mutant: every reply runs the dispatcher
RunsActionAlways(action_data) == TRUE

\* line 1456: `if action_data:` (None and the empty dict are both false)
RunsAction(action_data) == action_data.some /\ action_data.data # {}

\* lines 1499-1535: speak_text starts a SpeechWorker unless the text is blank
speak_text(text) ==
    tts_pending' = IF Strip(text.toks) = <<>> THEN tts_pending ELSE tts_pending + 1

\* lines 1418-1448
send_quick_message(msgs, message) ==
    /\ requests < MaxSends
    /\ requests' = requests + 1
    /\ current_voice' = SmartVoice(message)
    /\ conversation_messages' =
          add_conversation_message(
              NoteSwitch(msgs, message, "Voice changed to: "),
              "user", "", message)
    /\ conversation_count' = conversation_count + 1
    /\ progress_visible' = TRUE
    /\ send_enabled' = FALSE
    /\ AiSubmit(message)
    /\ voice_combo' = SwitchSelector(message)
    /\ UNCHANGED <<program, github_token, conversation_history, payload, outbox,
                   run_message, recent, appended, cleared_mid_run>>
    /\ UNCHANGED <<auto_speak, auto_voice_switch, dialog_open,
                   tts_pending, audio_pc, pygame_available, w_last>>

\* lines 1409-1416: the text of the input line, stripped; nothing is sent
\* when it is empty
send_message(msgs, input) ==
    IF Strip(input.toks) = <<>>
    THEN /\ conversation_messages' = msgs
         /\ UNCHANGED chatVars
         /\ UNCHANGED <<current_voice, voice_combo, auto_speak, auto_voice_switch,
                        conversation_count, progress_visible, send_enabled,
                        dialog_open, tts_pending, audio_pc, pygame_available,
                        w_last>>
    ELSE send_quick_message(msgs, Text(Strip(input.toks), input.lang))

WinInputs ==
    {Text(<<Word("hello")>>, "en"),
     Text(<<SP>>, "en"),
     Text(<<SP, SP>>, "en")}
QuickMessages == {Text(<<Word("please"), SP, Word("demonstrate")>>, "en")}
WinVoices == {"hi-IN-amit", DefaultVoice}

\* the send button or Return in the input line (lines 1135, 1140)
SendMessage(input) ==
    /\ ~dialog_open
    /\ send_message(conversation_messages, input)
    /\ w_op' = "send_message"
    /\ UNCHANGED <<voice_pc, clicks>>

\* a quick-action button (line 1174)
SendQuickMessage(message) ==
    /\ ~dialog_open
    /\ send_quick_message(conversation_messages, message)
    /\ w_op' = "send_quick_message"
    /\ UNCHANGED <<voice_pc, clicks>>

\* lines 1450-1489
OnAiResponse ==
    /\ outbox # <<>>
    /\ Head(outbox).sig = "response_ready"
    /\ outbox' = Tail(outbox)
    /\ LET response == Head(outbox).text
           action_data == extract_action_from_response(response)
           action_result ==
               execute_system_action(action_data.data, e_automation, e_platform,
                                     e_failing)
           acted ==
               IF RunsAction(action_data)
               THEN add_conversation_message(conversation_messages, "system",
                        "Action: ", Text(<<Word(action_result.status)>>, "en"))
               ELSE conversation_messages
       IN /\ current_voice' = SmartVoice(response)
          /\ voice_combo' = SwitchSelector(response)
          /\ conversation_messages' =
                add_conversation_message(
                    NoteSwitch(acted, response, "Voice automatically switched to: "),
                    "assistant", "", response)
          /\ IF auto_speak THEN speak_text(response) ELSE UNCHANGED tts_pending
          /\ w_last' = [reply |-> response, action |-> action_data,
                        os |-> IF RunsAction(action_data) THEN action_result.os
                               ELSE <<>>,
                        before |-> Len(conversation_messages)]
    /\ progress_visible' = FALSE
    /\ send_enabled' = TRUE
    /\ w_op' = "on_ai_response"
    /\ UNCHANGED <<program, github_token, conversation_history, user_message,
                   ai_pc, payload, run_message, recent, appended, cleared_mid_run,
                   requests>>
    /\ UNCHANGED <<auto_speak, auto_voice_switch, conversation_count,
                   dialog_open, audio_pc, voice_pc, pygame_available, clicks>>

\* lines 1491-1497
OnAiError ==
    /\ outbox # <<>>
    /\ Head(outbox).sig = "error_occurred"
    /\ outbox' = Tail(outbox)
    /\ conversation_messages' =
          add_conversation_message(conversation_messages, "system", "Error: ",
                                   Head(outbox).text)
    /\ progress_visible' = FALSE
    /\ send_enabled' = TRUE
    /\ w_op' = "on_ai_error"
    /\ UNCHANGED <<program, github_token, conversation_history, user_message,
                   ai_pc, payload, run_message, recent, appended, cleared_mid_run,
                   requests>>
    /\ UNCHANGED <<current_voice, voice_combo, auto_speak, auto_voice_switch,
                   conversation_count, dialog_open, tts_pending, audio_pc,
                   voice_pc, pygame_available, clicks, w_last>>

\* --- speech and audio -------------------------------------------------------
SetLastAudio(msgs) ==
    IF msgs = <<>> THEN msgs
    ELSE [msgs EXCEPT ![Len(msgs)].has_audio = TRUE]

\* lines 1543-1559, with AudioPlayer.play_audio (861-870): without pygame
\* playback_error is emitted, and handled, inside the call
OnSpeechReady ==
    /\ tts_pending > 0
    /\ tts_pending' = tts_pending - 1
    /\ IF pygame_available
       THEN /\ conversation_messages' = SetLastAudio(conversation_messages)
            /\ audio_pc' = "playing"
       ELSE /\ conversation_messages' =
                  add_conversation_message(SetLastAudio(conversation_messages),
                      "system", "Audio Error: ", NoText)
            /\ UNCHANGED audio_pc
    /\ w_op' = "on_speech_ready"
    /\ UNCHANGED chatVars
    /\ UNCHANGED <<current_voice, voice_combo, auto_speak, auto_voice_switch,
                   conversation_count, progress_visible, send_enabled, dialog_open,
                   voice_pc, pygame_available, clicks, w_last>>

\* lines 1561-1565
OnSpeechError ==
    /\ tts_pending > 0
    /\ tts_pending' = tts_pending - 1
    /\ w_op' = "on_speech_error"
    /\ UNCHANGED chatVars
    /\ UNCHANGED <<conversation_messages, current_voice, voice_combo, auto_speak,
                   auto_voice_switch, conversation_count, progress_visible,
                   send_enabled, dialog_open, audio_pc, voice_pc, pygame_available,
                   clicks, w_last>>

\* lines 1660-1663 (AudioPlayer.run ended well, 900-901)
OnAudioFinished ==
    /\ audio_pc = "playing"
    /\ audio_pc' = "idle"
    /\ w_op' = "on_audio_finished"
    /\ UNCHANGED chatVars
    /\ UNCHANGED <<conversation_messages, current_voice, voice_combo, auto_speak,
                   auto_voice_switch, conversation_count, progress_visible,
                   send_enabled, dialog_open, tts_pending, voice_pc,
                   pygame_available, clicks, w_last>>

\* lines 1665-1669 (AudioPlayer.run raised, 903-907)
OnAudioError ==
    /\ audio_pc = "playing"
    /\ audio_pc' = "idle"
    /\ conversation_messages' =
          add_conversation_message(conversation_messages, "system",
                                   "Audio Error: ", NoText)
    /\ w_op' = "on_audio_error"
    /\ UNCHANGED chatVars
    /\ UNCHANGED <<current_voice, voice_combo, auto_speak, auto_voice_switch,
                   conversation_count, progress_visible, send_enabled, dialog_open,
                   tts_pending, voice_pc, pygame_available, clicks, w_last>>

\* --- the controls -------------------------------------------------------------
\* the user acts on a control of the main window (not while the question
\* dialog is up)
Click ==
    /\ ~dialog_open
    /\ clicks < MaxClicks
    /\ clicks' = clicks + 1

\* lines 1671-1678: another item of the combo is picked
OnVoiceChanged(v) ==
    /\ Click
    /\ v # voice_combo
    /\ voice_combo' = v
    /\ current_voice' = v
    /\ conversation_messages' =
          add_conversation_message(conversation_messages, "system",
                                   "Voice changed to: ", VoiceText(v))
    /\ w_op' = "on_voice_changed"
    /\ UNCHANGED chatVars
    /\ UNCHANGED <<auto_speak, auto_voice_switch, conversation_count,
                   progress_visible, send_enabled, dialog_open, tts_pending,
                   audio_pc, voice_pc, pygame_available, w_last>>

\* lines 1680-1684
OnAutoSpeakToggled ==
    /\ Click
    /\ auto_speak' = ~auto_speak
    /\ conversation_messages' =
          add_conversation_message(conversation_messages, "system", "Auto-speak ",
              Text(<<Word(IF auto_speak THEN "disabled" ELSE "enabled")>>, "en"))
    /\ w_op' = "on_auto_speak_toggled"
    /\ UNCHANGED chatVars
    /\ UNCHANGED <<current_voice, voice_combo, auto_voice_switch,
                   conversation_count, progress_visible, send_enabled, dialog_open,
                   tts_pending, audio_pc, voice_pc, pygame_available, w_last>>

\* lines 1686-1690
OnAutoVoiceSwitchToggled ==
    /\ Click
    /\ auto_voice_switch' = ~auto_voice_switch
    /\ conversation_messages' =
          add_conversation_message(conversation_messages, "system",
              "Auto voice switching ",
              Text(<<Word(IF auto_voice_switch THEN "disabled" ELSE "enabled")>>,
                   "en"))
    /\ w_op' = "on_auto_voice_switch_toggled"
    /\ UNCHANGED chatVars
    /\ UNCHANGED <<current_voice, voice_combo, auto_speak, conversation_count,
                   progress_visible, send_enabled, dialog_open, tts_pending,
                   audio_pc, voice_pc, pygame_available, w_last>>

\* lines 1692-1695: the test sentence is never blank
TestCurrentVoice ==
    /\ Click
    /\ tts_pending' = tts_pending + 1
    /\ w_op' = "test_current_voice"
    /\ UNCHANGED chatVars
    /\ UNCHANGED <<conversation_messages, current_voice, voice_combo, auto_speak,
                   auto_voice_switch, conversation_count, progress_visible,
                   send_enabled, dialog_open, audio_pc, voice_pc, pygame_available,
                   w_last>>

\* lines 1647-1653: the last assistant message, if there is one, is spoken
SpeakLastMessage ==
    /\ Click
    /\ LET at == {n \in 1..Len(conversation_messages) :
                     conversation_messages[n].role = "assistant"}
       IN IF at = {} THEN UNCHANGED tts_pending
          ELSE speak_text(
                 conversation_messages[CHOOSE n \in at : \A m \in at : m <= n].body)
    /\ w_op' = "speak_last_message"
    /\ UNCHANGED chatVars
    /\ UNCHANGED <<conversation_messages, current_voice, voice_combo, auto_speak,
                   auto_voice_switch, conversation_count, progress_visible,
                   send_enabled, dialog_open, audio_pc, voice_pc, pygame_available,
                   w_last>>

\* --- voice input ------------------------------------------------------------
\* lines 1567-1601: the button is connected only when speech recognition is
\* installed (line 1145); a second click while the thread runs does nothing
StartVoiceInput ==
    /\ Click
    /\ voice_pc' = IF voice_pc = "idle" THEN "started" ELSE voice_pc
    /\ w_op' = "start_voice_input"
    /\ UNCHANGED chatVars
    /\ UNCHANGED <<conversation_messages, current_voice, voice_combo, auto_speak,
                   auto_voice_switch, conversation_count, progress_visible,
                   send_enabled, dialog_open, tts_pending, audio_pc,
                   pygame_available, w_last>>

\* lines 1609-1615
OnVoiceListeningStarted ==
    /\ voice_pc = "started"
    /\ voice_pc' = "listening"
    /\ conversation_messages' =
          add_conversation_message(conversation_messages, "system",
                                   "Listening for voice input...", NoText)
    /\ w_op' = "on_voice_listening_started"
    /\ UNCHANGED chatVars
    /\ UNCHANGED <<current_voice, voice_combo, auto_speak, auto_voice_switch,
                   conversation_count, progress_visible, send_enabled, dialog_open,
                   tts_pending, audio_pc, pygame_available, clicks, w_last>>

VoiceTexts == {Text(<<Word("open"), SP, Word("chrome"), SP>>, "en")}

\* lines 1624-1632: the recognised text is noted, put in the input line and
\* sent
OnVoiceInputReady(text) ==
    /\ voice_pc = "listening"
    /\ voice_pc' = "idle"
    /\ send_message(
          add_conversation_message(conversation_messages, "system",
                                   "Voice input recognized: ", text),
          text)
    /\ w_op' = "on_voice_input_ready"
    /\ UNCHANGED clicks

\* lines 1634-1640
OnVoiceInputError ==
    /\ voice_pc = "listening"
    /\ voice_pc' = "idle"
    /\ conversation_messages' =
          add_conversation_message(conversation_messages, "system",
                                   "Voice input error: ", NoText)
    /\ w_op' = "on_voice_input_error"
    /\ UNCHANGED chatVars
    /\ UNCHANGED <<current_voice, voice_combo, auto_speak, auto_voice_switch,
                   conversation_count, progress_visible, send_enabled, dialog_open,
                   tts_pending, audio_pc, pygame_available, clicks, w_last>>

\* --- clear_conversation (lines 1697-1718) ----------------------------------
\* the question is asked; queued signals are still delivered while it is up
ClearAsk ==
    /\ Click
    /\ dialog_open' = TRUE
    /\ w_op' = "clear_asked"
    /\ UNCHANGED chatVars
    /\ UNCHANGED <<conversation_messages, current_voice, voice_combo, auto_speak,
                   auto_voice_switch, conversation_count, progress_visible,
                   send_enabled, tts_pending, audio_pc, voice_pc, pygame_available,
                   w_last>>

\* the answer is Yes
ClearYes ==
    /\ dialog_open
    /\ dialog_open' = FALSE
    /\ conversation_messages' =
          add_conversation_message(<<>>, "system", "Conversation cleared", NoText)
    /\ clear_history
    /\ conversation_count' = 0
    /\ w_op' = "clear_conversation"
    /\ UNCHANGED <<program, github_token, user_message, ai_pc, payload, outbox,
                   run_message, requests>>
    /\ UNCHANGED <<current_voice, voice_combo, auto_speak, auto_voice_switch,
                   progress_visible, send_enabled, tts_pending, audio_pc, voice_pc,
                   pygame_available, clicks, w_last>>

\* the answer is No
ClearNo ==
    /\ dialog_open
    /\ dialog_open' = FALSE
    /\ w_op' = "clear_declined"
    /\ UNCHANGED chatVars
    /\ UNCHANGED <<conversation_messages, current_voice, voice_combo, auto_speak,
                   auto_voice_switch, conversation_count, progress_visible,
                   send_enabled, tts_pending, audio_pc, voice_pc, pygame_available,
                   clicks, w_last>>

\* --- claims about the window ------------------------------------------------
\* the reply has the marker, but the first place the extractor matches (if
\* any) does not hold a flat JSON object
BlockDoesNotParse(reply) ==
    LET s == reply.toks
    IN /\ \E n \in 1..Len(s) : IsMarker(s[n])
       /\ ~\E i \in 1..Len(s), j \in 1..Len(s), e \in 1..Len(s) :
              /\ RegexGroup(s, i, j, e)
              /\ \A h \in 1..(i - 1) : ~RegexMatchesAt(s, h)
              /\ FlatMembers(s, j, e)

\* C5: when the action block of a reply does not parse, the extractor gives
\* on_ai_response None; the handler then performs no OS action, adds no
\* action message, appends the assistant reply as the last message and leaves
\* the progress bar hidden and the send button enabled.
C5_Malformed ==
    (w_op = "on_ai_response" /\ BlockDoesNotParse(w_last.reply)) =>
        /\ w_last.action = None
        /\ w_last.os = <<>>
        /\ \A n \in (w_last.before + 1)..Len(conversation_messages) :
              conversation_messages[n].prefix # "Action: "
        /\ Len(conversation_messages) > w_last.before
        /\ conversation_messages[Len(conversation_messages)] =
              ConversationMessage("assistant", "", w_last.reply)
        /\ ~progress_visible
        /\ send_enabled

\* on_ai_response has handled a reply whose action block does not parse
C5_Witness ==
    /\ w_op = "on_ai_response"
    /\ BlockDoesNotParse(w_last.reply)
    /\ conversation_messages[Len(conversation_messages)].role = "assistant"

SameEntry(a, b) ==
    /\ a.role = b.role
    /\ a.prefix = b.prefix
    /\ a.body = b.body
    /\ a.has_audio => b.has_audio

\* C10: every handler other than a confirmed clear_conversation keeps the
\* entries of conversation_messages in place and in order (only has_audio of
\* an entry may be set) and never shortens the list; a confirmed clear leaves
\* exactly the "conversation cleared" system message.
C10_Grows ==
    [][IF w_op' = "clear_conversation"
       THEN conversation_messages' = <<ClearedMessage>>
       ELSE /\ Len(conversation_messages') >= Len(conversation_messages)
            /\ \A n \in 1..Len(conversation_messages) :
                  SameEntry(conversation_messages[n], conversation_messages'[n])
      ]_windowVars

\* a conversation with a handled reply has been cleared
C10_Witness ==
    /\ w_op = "clear_conversation"
    /\ conversation_messages = <<ClearedMessage>>
    /\ conversation_history = <<SystemEntry>>
    /\ w_last # NoResponse

\* ------------------------------------------------------------------------
\* MurfTTSClient.text_to_speech  (conversational_murf_ai.py 195-247)
\* One invocation: the loop over the requested voice and the fallback voices.
\* ------------------------------------------------------------------------
VARIABLES
    tts_voice_id,   \* the voice_id argument
    tts_real,       \* self.client and not self.api_key.startswith("your_")
    tts_pc,         \* "loop" while the for loop runs, "returned" after
    tts_try,        \* index into voices_to_try of the next iteration
    tts_calls,      \* ghost: the vendor calls made, with how each ended
    tts_result      \* what the invocation returned

ttsVars == <<tts_voice_id, tts_real, tts_pc, tts_try, tts_calls, tts_result>>

\* line 198
fallback_voices == <<"en-IN-priya", "en-IN-aarav", "en-US-terrell", "hi-IN-ayushi">>

\* a mutant: the requested voice is not filtered out of the fallbacks
voices_to_try_unfiltered(voice_id) == <<voice_id>> \o fallback_voices

\* line 199
voices_to_try(voice_id) ==
    <<voice_id>> \o SelectSeq(fallback_voices, LAMBDA v : v # voice_id)

\* the ways one iteration of the real branch fails: generate() raises
\* (236-243), the response has no audio_file (227-230), the download does not
\* answer 200 (224-226) or raises (236-243)
TtsFailures == {"generate_raised", "no_audio_file", "download_status", "download_raised"}

TtsVoices == {"en-IN-priya", "hi-IN-amit", "en-US-terrell", "hi-IN-ayushi"}

NoAudio == [kind |-> "none", voice |-> ""]

TtsIdle ==
    /\ tts_voice_id = "en-IN-priya"
    /\ tts_real = FALSE
    /\ tts_pc = "returned"
    /\ tts_try = 1
    /\ tts_calls = <<>>
    /\ tts_result = NoAudio

\* lines 203-223: the vendor call for try_voice succeeds and the audio is
\* downloaded
TtsVendorOk ==
    /\ tts_pc = "loop"
    /\ tts_real
    /\ tts_try <= Len(voices_to_try(tts_voice_id))
    /\ tts_calls' = Append(tts_calls,
          [voice |-> voices_to_try(tts_voice_id)[tts_try], ended |-> "ok"])
    /\ tts_result' = [kind |-> "vendor", voice |-> voices_to_try(tts_voice_id)[tts_try]]
    /\ tts_pc' = "returned"
    /\ UNCHANGED <<tts_voice_id, tts_real, tts_try>>

\* lines 203-243: the vendor call for try_voice fails; `continue`
TtsVendorFails(how) ==
    /\ tts_pc = "loop"
    /\ tts_real
    /\ tts_try <= Len(voices_to_try(tts_voice_id))
    /\ tts_calls' = Append(tts_calls,
          [voice |-> voices_to_try(tts_voice_id)[tts_try], ended |-> how])
    /\ tts_try' = tts_try + 1
    /\ UNCHANGED <<tts_voice_id, tts_real, tts_pc, tts_result>>

\* lines 231-234: demo mode returns placeholder audio in the first iteration
TtsDemo ==
    /\ tts_pc = "loop"
    /\ ~tts_real
    /\ tts_try <= Len(voices_to_try(tts_voice_id))
    /\ tts_result' = [kind |-> "demo", voice |-> voices_to_try(tts_voice_id)[tts_try]]
    /\ tts_pc' = "returned"
    /\ UNCHANGED <<tts_voice_id, tts_real, tts_try, tts_calls>>

\* lines 245-247: every voice failed
TtsExhausted ==
    /\ tts_pc = "loop"
    /\ tts_try > Len(voices_to_try(tts_voice_id))
    /\ tts_result' = [kind |-> "demo", voice |-> tts_voice_id]
    /\ tts_pc' = "returned"
    /\ UNCHANGED <<tts_voice_id, tts_real, tts_try, tts_calls>>

\* C11 (as claimed): an invocation makes at most one vendor call, and none
\* after a vendor call has failed.
C11_AsClaimed == Len(tts_calls) <= 1

\* C11 (amended): after a failed vendor call the invocation goes on to the
\* next voice of voices_to_try (the requested voice, then the fallback
\* voices other than it): the calls are for the first voices of that list,
\* in its order, each voice once, so at most 5 calls (4 when the requested
\* voice is a fallback voice); no call follows a successful one, and when
\* every voice has failed the placeholder audio is returned.
C11_Fallbacks ==
    LET vs == voices_to_try(tts_voice_id)
    IN /\ Len(tts_calls) <= Len(vs)
       /\ Len(tts_calls) <= 5
       /\ tts_voice_id \in {fallback_voices[n] : n \in 1..4} => Len(tts_calls) <= 4
       /\ \A n \in 1..Len(tts_calls) : tts_calls[n].voice = vs[n]
       /\ \A n, m \in 1..Len(tts_calls) :
             tts_calls[n].voice = tts_calls[m].voice => n = m
       /\ \A n \in 1..(Len(tts_calls) - 1) : tts_calls[n].ended # "ok"
       /\ tts_pc = "returned" =>
             \/ tts_result = NoAudio /\ tts_calls = <<>>
             \/ tts_result.kind = "vendor"
                  /\ tts_calls[Len(tts_calls)].ended = "ok"
                  /\ tts_result.voice = tts_calls[Len(tts_calls)].voice
             \/ tts_result.kind = "demo"
                  /\ (tts_real => Len(tts_calls) = Len(vs))
                  /\ \A n \in 1..Len(tts_calls) : tts_calls[n].ended # "ok"

\* the requested voice failed and a fallback voice then succeeded
C11_Witness ==
    /\ tts_pc = "returned"
    /\ Len(tts_calls) >= 2
    /\ tts_calls[1].ended # "ok"
    /\ tts_result.kind = "vendor"
    /\ tts_result.voice # tts_voice_id

\* ------------------------------------------------------------------------
\* omni_ai_assistant.py: AdvancedAIProcessor
\* A query is the sequence of its space-separated words; a context is the
\* dict the window keeps in current_analysis_context, a key that is absent
\* being the empty value.
\* ------------------------------------------------------------------------
\* str.lower() on the words of the model
QueryLower(w) ==
    CASE w = "Please" -> "please"
      [] w = "YouTube" -> "youtube"
      [] w = "PDF" -> "pdf"
      [] w = "Hindi" -> "hindi"
      [] OTHER -> w

\* the routing keywords of process_query (lines 512-525) that occur as
\* substrings of a lower-cased word
KeywordsIn(w) ==
    CASE w = "this" -> {"hi"}
      [] w = "hindi" -> {"hindi", "hi"}
      [] w = "youtube" -> {"youtube"}
      [] w = "video" -> {"video"}
      [] w = "summary:" -> {"summary"}
      [] w = "website:" -> {"website", "web"}
      [] w = "pdf" -> {"pdf"}
      [] w = "document:" -> {"document"}
      [] w = "website" -> {"website", "web"}
      [] w = "document" -> {"document"}
      [] w = "word" -> {"word"}
      [] w = "translate" -> {"translate"}
      [] w = "watch" -> {"watch"}
      [] w = "send" -> {"send"}
      [] w = "hi" -> {"hi"}
      [] w = "https://www.youtube.com/watch?v=dQw4w9WgXcQ" -> {"youtube", "watch"}
      [] w = "https://youtube.com/embed/abc123" -> {"youtube"}
      [] w = "youtube.com/watch?v=abc123" -> {"youtube", "watch"}
      [] w = "https://www.youtube.com/watch" -> {"youtube", "watch"}
      [] w = "https://m.youtube.com/watch?v=abc123" -> {"youtube", "watch"}
      [] w = "https://www.youtube.com/embed/" -> {"youtube"}
      [] w = "https://www.youtube.com/shorts/abc123" -> {"youtube"}
      [] w = "/home/u/report.pdf" -> {"pdf"}
      [] OTHER -> {}

\* keyword in query_lower, the keyword given as the sequence of its words;
\* no word of the model ends or begins with a word of a longer keyword
\* except that word itself
InQuery(keyword, query) ==
    IF Len(keyword) = 1
    THEN \E i \in 1..Len(query) : keyword[1] \in KeywordsIn(QueryLower(query[i]))
    ELSE \E i \in 1..Len(query) :
            /\ i + Len(keyword) - 1 <= Len(query)
            /\ \A j \in 1..Len(keyword) : QueryLower(query[i + j - 1]) = keyword[j]

AnyIn(keywords, query) == \E k \in keywords : InQuery(k, query)

OpenKeywords ==
    {<<"open", "word">>, <<"open", "microsoft", "word">>, <<"open", "notepad">>,
     <<"open", "calculator">>, <<"open", "whatsapp">>, <<"open", "excel">>,
     <<"open", "powerpoint">>}

\* the handler process_query hands the query to (lines 512-527)
Route(query) ==
    IF AnyIn(OpenKeywords, query) THEN "system_automation"
    ELSE IF AnyIn({<<"type">>, <<"write">>, <<"application">>}, query)
            /\ AnyIn({<<"word">>, <<"document">>}, query) THEN "system_automation"
    ELSE IF InQuery(<<"send">>, query)
            /\ AnyIn({<<"whatsapp">>, <<"message">>, <<"hi">>}, query) THEN "system_automation"
    ELSE IF AnyIn({<<"summarize">>, <<"summary">>, <<"pdf">>, <<"document">>,
                   <<"analyze", "document">>}, query) THEN "document_analysis"
    ELSE IF AnyIn({<<"youtube">>, <<"video">>, <<"watch">>, <<"summarize", "video">>}, query)
         THEN "video_analysis"
    ELSE IF AnyIn({<<"website">>, <<"url">>, <<"web">>, <<"scrape">>}, query)
         THEN "web_analysis"
    ELSE IF AnyIn({<<"translate">>, <<"hindi">>, <<"language">>}, query) THEN "translation"
    ELSE "general_conversation"

\* --- _extract_youtube_id (lines 810-823) -----------------------------------
YoutubeUrls ==
    {"https://www.youtube.com/watch?v=dQw4w9WgXcQ", "https://youtube.com/embed/abc123",
     "https://youtu.be/abc123", "youtube.com/watch?v=abc123", "https://youtu.be/",
     "https://www.youtube.com/watch", "https://m.youtube.com/watch?v=abc123",
     "https://www.youtube.com/embed/", "https://www.youtube.com/shorts/abc123"}

OtherUrls == {"https://example.com", "example.com", "http://[bad"}

\* Python's None where a string is expected
NoneStr == "<None>"

\* urllib.parse.urlparse: the hostname, path and query string of a URL; a
\* URL without "//" has no network location, all of it is path
UrlParse(url) ==
    CASE url = "https://www.youtube.com/watch?v=dQw4w9WgXcQ" ->
            [hostname |-> "www.youtube.com", path |-> "/watch", query |-> "v=dQw4w9WgXcQ"]
      [] url = "https://youtube.com/embed/abc123" ->
            [hostname |-> "youtube.com", path |-> "/embed/abc123", query |-> ""]
      [] url = "https://youtu.be/abc123" ->
            [hostname |-> "youtu.be", path |-> "/abc123", query |-> ""]
      [] url = "youtube.com/watch?v=abc123" ->
            [hostname |-> NoneStr, path |-> "youtube.com/watch", query |-> "v=abc123"]
      [] url = "https://youtu.be/" ->
            [hostname |-> "youtu.be", path |-> "/", query |-> ""]
      [] url = "https://www.youtube.com/watch" ->
            [hostname |-> "www.youtube.com", path |-> "/watch", query |-> ""]
      [] url = "https://m.youtube.com/watch?v=abc123" ->
            [hostname |-> "m.youtube.com", path |-> "/watch", query |-> "v=abc123"]
      [] url = "https://www.youtube.com/embed/" ->
            [hostname |-> "www.youtube.com", path |-> "/embed/", query |-> ""]
      [] url = "https://www.youtube.com/shorts/abc123" ->
            [hostname |-> "www.youtube.com", path |-> "/shorts/abc123", query |-> ""]
      [] url = "https://example.com" ->
            [hostname |-> "example.com", path |-> "", query |-> ""]
      [] OTHER -> [hostname |-> NoneStr, path |-> url, query |-> ""]

\* urlparse raises ValueError on a bracket that is not closed
UrlParseRaises(url) == url = "http://[bad"

\* parse_qs(query)['v'][0]; a query without v raises KeyError
QueryV(query) ==
    CASE query = "v=dQw4w9WgXcQ" -> [raised |-> FALSE, value |-> "dQw4w9WgXcQ"]
      [] query = "v=abc123" -> [raised |-> FALSE, value |-> "abc123"]
      [] OTHER -> [raised |-> TRUE, value |-> NoneStr]

\* path.startswith('/embed/') and path.split('/')[2]
EmbedId(path) ==
    CASE path = "/embed/abc123" -> [embed |-> TRUE, id |-> "abc123"]
      [] path = "/embed/" -> [embed |-> TRUE, id |-> ""]
      [] OTHER -> [embed |-> FALSE, id |-> NoneStr]

\* path[1:]
PathTail(path) ==
    CASE path = "/abc123" -> "abc123"
      [] path = "/" -> ""
      [] OTHER -> ""

\* a mutant: any host ending in youtube.com is taken for the watch form
extract_youtube_id_any_host(url) ==
    LET parsed_url == UrlParse(url)
    IN IF UrlParseRaises(url) THEN NoneStr
       ELSE IF parsed_url.hostname \in {"www.youtube.com", "youtube.com", "m.youtube.com"}
       THEN IF parsed_url.path = "/watch"
            THEN IF QueryV(parsed_url.query).raised THEN NoneStr
                 ELSE QueryV(parsed_url.query).value
            ELSE IF EmbedId(parsed_url.path).embed THEN EmbedId(parsed_url.path).id
            ELSE NoneStr
       ELSE IF parsed_url.hostname = "youtu.be" THEN PathTail(parsed_url.path)
       ELSE NoneStr

_extract_youtube_id(url) ==
    LET parsed_url == UrlParse(url)
    IN \* the bare except of line 822 turns every exception into None
       IF UrlParseRaises(url) THEN NoneStr
       ELSE IF parsed_url.hostname \in {"www.youtube.com", "youtube.com"}
       THEN IF parsed_url.path = "/watch"
            THEN IF QueryV(parsed_url.query).raised THEN NoneStr
                 ELSE QueryV(parsed_url.query).value
            ELSE IF EmbedId(parsed_url.path).embed THEN EmbedId(parsed_url.path).id
            ELSE NoneStr
       ELSE IF parsed_url.hostname = "youtu.be" THEN PathTail(parsed_url.path)
       ELSE NoneStr

\* --- documents (lines 594-700) ---------------------------------------------
FilePaths == {"/home/u/report.pdf", "SCAN.PDF", "/docs/letter.docx", "notes.txt", "photo.png"}

\* Path(file_path).suffix.lower()
SuffixLower(file_path) ==
    CASE file_path = "/home/u/report.pdf" -> ".pdf"
      [] file_path = "SCAN.PDF" -> ".pdf"
      [] file_path = "/docs/letter.docx" -> ".docx"
      [] file_path = "notes.txt" -> ".txt"
      [] file_path = "photo.png" -> ".png"
      [] OTHER -> ""

\* what reading a file gives: its text (" " a text of white space only), or
\* an exception of the reader
FileTexts == {"sample content", " ", ""}
FileReads == FileTexts \cup {"raise"}

StrStrip(text) == IF text = " " THEN "" ELSE text

\* _extract_pdf_content and _extract_docx_content strip the text they read
\* (lines 668-691), _extract_txt_content does not (693-700); each returns
\* "" when the reader raises
ExtractStripped(read) == IF read = "raise" THEN "" ELSE StrStrip(read)
_extract_txt_content(read) == IF read = "raise" THEN "" ELSE read

\* a mutant: an unsupported extension is read as text
extract_document_content_any(file_path, read) ==
    IF SuffixLower(file_path) \in {".pdf", ".docx"} THEN ExtractStripped(read)
    ELSE _extract_txt_content(read)

_extract_document_content(file_path, read) ==
    IF SuffixLower(file_path) \in {".pdf", ".docx"} THEN ExtractStripped(read)
    ELSE IF SuffixLower(file_path) = ".txt" THEN _extract_txt_content(read)
    ELSE NoneStr

\* --- the handlers ------------------------------------------------------------
EmptyContext == [file_path |-> "", url |-> "", hindi_summary |-> FALSE]

\* what the world does during one call of process_query: the file read, the
\* hosted model, pytube, the transcript service, the web fetch, the desktop
\* automation
Worlds ==
    [read : FileReads, ai : {"ok", "429", "status", "raise"}, pytube : {"ok", "raise"},
     transcript : {"words", "", "raise"}, fetch : {"ok", "raise"},
     automation : {"ok", "raise"}]

Result(response, action, transcript) ==
    [response |-> response, action |-> action, transcript |-> transcript]

\* an exception that leaves a function
Raised == Result(<<"exception", "">>, "<raised>", "")

\* _get_github_models_response (537-571): the reply, or the fallback text on
\* every failure
_get_github_models_response(world) ==
    IF world.ai = "ok" THEN "reply of the model" ELSE "fallback text"

_handle_document_analysis(query, context, world) ==
    IF context # EmptyContext /\ context.file_path # ""
    THEN LET file_content == _extract_document_content(context.file_path, world.read)
         IN IF file_content # NoneStr /\ file_content # ""
            THEN Result(<<"Document Analysis Complete", _get_github_models_response(world)>>,
                        "document_analysis", "")
            ELSE Result(<<"could not extract content", "">>, "document_analysis_error", "")
    ELSE Result(<<"please upload a file", "">>, "document_analysis", "")

_analyze_youtube_video(url, world) ==
    IF _extract_youtube_id(url) \in {NoneStr, ""}
    THEN Result(<<"Invalid YouTube URL", "">>, "video_analysis_error", "")
    ELSE IF world.pytube = "raise"
    THEN Result(<<"Error analyzing video", "">>, "video_analysis_error", "")
    ELSE IF world.transcript = "raise"
    THEN Result(<<"Could not extract transcript", "">>, "video_analysis_error", "")
    ELSE Result(<<"YouTube Video Analysis Complete", _get_github_models_response(world)>>,
                "video_analysis", world.transcript)

_handle_video_analysis(query, context, world) ==
    IF context # EmptyContext /\ context.url # ""
    THEN _analyze_youtube_video(context.url, world)
    ELSE Result(<<"paste a YouTube URL", "">>, "video_analysis", "")

\* a mutant: the failure of the fetch is not caught
analyze_website_uncaught(url, world) ==
    IF world.fetch = "raise" THEN Raised
    ELSE Result(<<"Website Analysis Complete", _get_github_models_response(world)>>,
                "web_analysis", "")

_analyze_website(url, world) ==
    IF world.fetch = "raise"
    THEN Result(<<"Error analyzing website", "">>, "web_analysis_error", "")
    ELSE Result(<<"Website Analysis Complete", _get_github_models_response(world)>>,
                "web_analysis", "")

_handle_web_analysis(query, context, world) ==
    IF context # EmptyContext /\ context.url # ""
    THEN _analyze_website(context.url, world)
    ELSE Result(<<"paste a website URL", "">>, "web_analysis", "")

_handle_translation(query, context) ==
    Result(<<"Multi-Language Capabilities", "">>, "translation", "")

_handle_system_automation(query, context, world) ==
    IF world.automation = "raise"
    THEN Result(<<"System automation error", "">>, "automation_error", "")
    ELSE Result(<<"automation", "">>, "system_automation", "")

_handle_general_conversation(query, context, world) ==
    Result(<<_get_github_models_response(world), "">>, "conversation", "")

\* process_query (505-535)
process_query(query, context, world) ==
    LET handler == Route(query)
        returned ==
          CASE handler = "system_automation" ->
                  _handle_system_automation(query, context, world)
            [] handler = "document_analysis" ->
                  _handle_document_analysis(query, context, world)
            [] handler = "video_analysis" -> _handle_video_analysis(query, context, world)
            [] handler = "web_analysis" -> _handle_web_analysis(query, context, world)
            [] handler = "translation" -> _handle_translation(query, context)
            [] OTHER -> _handle_general_conversation(query, context, world)
    IN \* lines 529-535: whatever a handler raises becomes the 'error' result
       IF returned = Raised
       THEN Result(<<"I encountered an error processing your request", "">>, "error", "")
       ELSE returned

\* ------------------------------------------------------------------------
\* omni_ai_assistant.py: ModernGUI, its command queue and its worker thread
\* ------------------------------------------------------------------------
VARIABLES
    command_queue,             \* queue.Queue() of (command_type, command_data)
    current_analysis_context,  \* written by the window, read and reset by the worker
    chat_display,              \* the (sender, message) blocks of the chat box
    o_pc,                      \* the worker: "get" at the queue, "process" in process_query
    o_command,                 \* the command the worker took
    o_context,                 \* the worker's local context (line 1653)
    o_after,                   \* responses scheduled with root.after(0, ..)
    o_timers,                  \* responses scheduled with root.after(2000, ..)
    o_submitted,               \* ghost: the commands put, with the context set for them
    o_log,                     \* ghost: the commands processed, with context and result
    o_clicks                   \* the number of controls used so far

omniVars ==
    <<command_queue, current_analysis_context, chat_display, o_pc, o_command, o_context,
      o_after, o_timers, o_submitted, o_log, o_clicks>>

Command(command_type, command_data) == [type |-> command_type, data |-> command_data]

NoCommand == Command("", <<>>)

OmniWelcome == [sender |-> "OMNI-AI", message |-> "Welcome"]

OmniIdle ==
    /\ command_queue = <<>>
    /\ current_analysis_context = EmptyContext
    /\ chat_display = <<OmniWelcome>>
    /\ o_pc = "get"
    /\ o_command = NoCommand
    /\ o_context = EmptyContext
    /\ o_after = <<>>
    /\ o_timers = <<>>
    /\ o_submitted = <<>>
    /\ o_log = <<>>
    /\ o_clicks = 0

\* add_message (lines 1629-1644)
add_message(display, sender, message) ==
    Append(display, [sender |-> sender, message |-> message])

\* a mutant: a new command overtakes the waiting ones
QueuePutFront(queue, item) == <<item>> \o queue

\* command_queue.put
QueuePut(queue, item) == Append(queue, item)

\* the common part of the controls: the command is put and the ghost notes it
Enqueue(command, context) ==
    /\ command_queue' = QueuePut(command_queue, command)
    /\ o_submitted' = Append(o_submitted, [command |-> command, context |-> context])

\* the url the window hands on: 'https://' is put before one without scheme
WithScheme(url) == IF url = "example.com" THEN "https://example.com" ELSE url

\* "youtube.com" in url or "youtu.be" in url
LooksLikeYoutube(url) == url \in YoutubeUrls

\* upload_pdf (1565-1574); filename "" is the dialog cancelled
upload_pdf(filename) ==
    /\ o_clicks < MaxCommands
    /\ o_clicks' = o_clicks + 1
    /\ IF filename # ""
       THEN /\ chat_display' = add_message(chat_display, "System", "Analyzing PDF")
            /\ current_analysis_context' = [EmptyContext EXCEPT !.file_path = filename]
            /\ Enqueue(Command("pdf_analysis",
                               <<"Please", "analyze", "this", "PDF", "document:", filename>>),
                       [EmptyContext EXCEPT !.file_path = filename])
       ELSE UNCHANGED <<chat_display, current_analysis_context, command_queue, o_submitted>>
    /\ UNCHANGED <<o_pc, o_command, o_context, o_after, o_timers, o_log>>

\* upload_document (1576-1589)
upload_document(filename) ==
    /\ o_clicks < MaxCommands
    /\ o_clicks' = o_clicks + 1
    /\ IF filename # ""
       THEN /\ chat_display' = add_message(chat_display, "System", "Analyzing Document")
            /\ current_analysis_context' = [EmptyContext EXCEPT !.file_path = filename]
            /\ Enqueue(Command("doc_analysis",
                               <<"Please", "analyze", "this", "document:", filename>>),
                       [EmptyContext EXCEPT !.file_path = filename])
       ELSE UNCHANGED <<chat_display, current_analysis_context, command_queue, o_submitted>>
    /\ UNCHANGED <<o_pc, o_command, o_context, o_after, o_timers, o_log>>

\* analyze_website (1591-1603)
analyze_website(entry) ==
    /\ o_clicks < MaxCommands
    /\ o_clicks' = o_clicks + 1
    /\ IF entry # ""
       THEN LET url == WithScheme(entry)
            IN /\ chat_display' = add_message(chat_display, "System", "Analyzing Website")
               /\ current_analysis_context' = [EmptyContext EXCEPT !.url = url]
               /\ Enqueue(Command("web_analysis",
                                  <<"Please", "analyze", "this", "website:", url>>),
                          [EmptyContext EXCEPT !.url = url])
       ELSE /\ chat_display' = add_message(chat_display, "Error", "enter a valid website URL")
            /\ UNCHANGED <<current_analysis_context, command_queue, o_submitted>>
    /\ UNCHANGED <<o_pc, o_command, o_context, o_after, o_timers, o_log>>

YoutubeQuery(url) ==
    <<"Please", "analyze", "this", "YouTube", "video", "and", "provide", "Hindi",
      "summary:", url>>

\* analyze_youtube (1605-1614)
analyze_youtube(url) ==
    /\ o_clicks < MaxCommands
    /\ o_clicks' = o_clicks + 1
    /\ IF url # "" /\ LooksLikeYoutube(url)
       THEN /\ chat_display' = add_message(chat_display, "System", "Analyzing YouTube Video")
            /\ current_analysis_context' =
                   [EmptyContext EXCEPT !.url = url, !.hindi_summary = TRUE]
            /\ Enqueue(Command("youtube_analysis", YoutubeQuery(url)),
                       [EmptyContext EXCEPT !.url = url, !.hindi_summary = TRUE])
       ELSE /\ chat_display' = add_message(chat_display, "Error", "enter a valid YouTube URL")
            /\ UNCHANGED <<current_analysis_context, command_queue, o_submitted>>
    /\ UNCHANGED <<o_pc, o_command, o_context, o_after, o_timers, o_log>>

\* ModernGUI.send_message (1616-1622); message is the entry text stripped,
\* <<>> the blank one
ModernGUI_send_message(message) ==
    /\ o_clicks < MaxCommands
    /\ o_clicks' = o_clicks + 1
    /\ IF message # <<>>
       THEN /\ chat_display' = add_message(chat_display, "User", "message")
            /\ Enqueue(Command("text", message), EmptyContext)
       ELSE UNCHANGED <<chat_display, command_queue, o_submitted>>
    /\ UNCHANGED <<current_analysis_context, o_pc, o_command, o_context, o_after, o_timers,
                   o_log>>

\* clear_chat (1624-1627)
clear_chat ==
    /\ o_clicks < MaxCommands
    /\ o_clicks' = o_clicks + 1
    /\ chat_display' = add_message(<<>>, "System", "Chat cleared")
    /\ UNCHANGED <<command_queue, current_analysis_context, o_pc, o_command, o_context,
                   o_after, o_timers, o_submitted, o_log>>

\* process_commands, lines 1650-1653: a command is taken and the context of
\* the window is read (an empty queue raises queue.Empty and the loop goes on)
OmniGet ==
    /\ o_pc = "get"
    /\ command_queue # <<>>
    /\ o_command' = Head(command_queue)
    /\ command_queue' = Tail(command_queue)
    /\ o_context' = current_analysis_context
    /\ o_pc' = "process"
    /\ UNCHANGED <<current_analysis_context, chat_display, o_after, o_timers, o_submitted,
                   o_log, o_clicks>>

\* lines 1664-1666
SchedulesHindi(response, context) ==
    response.action = "video_analysis" /\ context.hindi_summary

\* process_commands, lines 1656-1675: the query is processed, the display of
\* the response, its speech and the status line are scheduled for the window
\* (one entry of o_after stands for the three), the Hindi summary is scheduled
\* 2 s later, and the context of the window is reset
OmniProcess(world) ==
    /\ o_pc = "process"
    /\ \E response \in {process_query(o_command.data, o_context, world)} :
          /\ o_after' = Append(o_after, response)
          /\ o_timers' = IF SchedulesHindi(response, o_context)
                         THEN Append(o_timers, response) ELSE o_timers
          /\ o_log' = Append(o_log, [command |-> o_command, context |-> o_context,
                                     response |-> response,
                                     hindi |-> SchedulesHindi(response, o_context)])
    /\ current_analysis_context' = EmptyContext
    /\ o_pc' = "get"
    /\ o_command' = NoCommand
    /\ o_context' = EmptyContext
    /\ UNCHANGED <<command_queue, chat_display, o_submitted, o_clicks>>

\* the window runs what line 1659-1672 scheduled: add_message, speak_response
\* (1724-1738, which leaves the window as it is) and the status line
OmniShow ==
    /\ o_after # <<>>
    /\ chat_display' = add_message(chat_display, "OMNI-AI", Head(o_after).action)
    /\ o_after' = Tail(o_after)
    /\ UNCHANGED <<command_queue, current_analysis_context, o_pc, o_command, o_context,
                   o_timers, o_submitted, o_log, o_clicks>>

\* generate_hindi_summary (1684-1722); translated is whether the translator
\* and the speech went through
generate_hindi_summary(translated) ==
    /\ o_timers # <<>>
    /\ chat_display' =
          IF Head(o_timers).transcript = ""
          THEN add_message(chat_display, "Error", "no transcript available")
          ELSE IF translated THEN add_message(chat_display, "Hindi Assistant", "Hindi Summary")
          ELSE add_message(chat_display, "Error", "Error generating Hindi summary")
    /\ o_timers' = Tail(o_timers)
    /\ UNCHANGED <<command_queue, current_analysis_context, o_pc, o_command, o_context,
                   o_after, o_submitted, o_log, o_clicks>>

\* what the user enters in the window of the model
OmniYoutubeEntries ==
    {"https://www.youtube.com/watch?v=dQw4w9WgXcQ", "youtube.com/watch?v=abc123",
     "https://example.com"}
OmniWebEntries == {"example.com", ""}
OmniPdfFiles == {"/home/u/report.pdf", ""}
OmniDocFiles == {"notes.txt", ""}
OmniTexts == {<<"hello">>, <<>>}

\* the worlds of the model's window: all goes well, or one thing fails
FairWorld ==
    [read |-> "sample content", ai |-> "ok", pytube |-> "ok", transcript |-> "words",
     fetch |-> "ok", automation |-> "ok"]

OmniWorlds ==
    {FairWorld, [FairWorld EXCEPT !.read = "raise"], [FairWorld EXCEPT !.ai = "429"],
     [FairWorld EXCEPT !.transcript = ""], [FairWorld EXCEPT !.transcript = "raise"],
     [FairWorld EXCEPT !.fetch = "raise"]}

\* the commands submitted so far, in order
Submitted == [i \in 1..Len(o_submitted) |-> o_submitted[i].command]

\* the commands the worker has taken so far, in order
Started ==
    [i \in 1..Len(o_log) |-> o_log[i].command]
        \o (IF o_pc = "process" THEN <<o_command>> ELSE <<>>)

\* --- claims about the command queue --------------------------------------------
\* C12 as the spec states it: no request is ever buffered, the number of
\* submitted but not yet started requests is zero in every reachable state.
C12_AsClaimed == Len(command_queue) = 0

\* C12, amended: requests are buffered.  Every request the window accepts is
\* put at the tail of command_queue, and the single worker takes them from
\* its head one at a time: in every reachable state the requests submitted
\* so far are exactly the ones the worker has taken, in the same order,
\* followed by the ones still waiting in the queue.
C12_Fifo ==
    /\ Submitted = Started \o command_queue
    /\ Len(command_queue) <= Len(o_submitted)
    /\ o_pc = "get" => o_command = NoCommand

\* two requests wait in the queue behind one the worker is processing
C12_Witness ==
    /\ o_pc = "process"
    /\ Len(command_queue) = 2
    /\ Len(o_submitted) = 3

\* C13 as the spec states it: a request of the 'Analyze YouTube' control is
\* routed to the video-analysis handler, so its action is 'video_analysis' or
\* 'video_analysis_error', and on 'video_analysis' the Hindi summary is
\* scheduled.
C13_AsClaimed ==
    \A i \in 1..Len(o_log) :
        o_log[i].command.type = "youtube_analysis" =>
            /\ o_log[i].response.action \in {"video_analysis", "video_analysis_error"}
            /\ o_log[i].response.action = "video_analysis" => o_log[i].hindi

\* ------------------------------------------------------------------------
\* AdvancedAIProcessor called on its own, as src/test_features.py calls it
\* ------------------------------------------------------------------------
VARIABLES
    p_query,      \* the query of the call
    p_context,    \* its context
    p_world,      \* what the world did during the call
    p_fn,         \* the function called, "" before the call
    p_result,     \* the dict a handler or process_query returned
    p_text        \* the string _extract_youtube_id or _extract_document_content returned

processorVars == <<p_query, p_context, p_world, p_fn, p_result, p_text>>

NoResult == Result(<<"", "">>, "", "")

ProcessorIdle ==
    /\ p_query = <<>>
    /\ p_context = EmptyContext
    /\ p_world = FairWorld
    /\ p_fn = ""
    /\ p_result = NoResult
    /\ p_text = ""

PQueries ==
    {YoutubeQuery("https://www.youtube.com/watch?v=dQw4w9WgXcQ"),
     <<"Please", "analyze", "this", "website:", "https://example.com">>,
     <<"Please", "analyze", "this", "PDF", "document:", "/home/u/report.pdf">>,
     <<"hello">>, <<"analyze", "video">>, <<"analyze", "website">>,
     <<"analyze", "document">>, <<"translate", "this">>, <<"open", "word">>,
     <<"send", "hi">>}

PContexts ==
    {EmptyContext}
        \cup {[EmptyContext EXCEPT !.url = u] : u \in YoutubeUrls \cup OtherUrls}
        \cup {[EmptyContext EXCEPT !.url = u, !.hindi_summary = TRUE] : u \in YoutubeUrls}
        \cup {[EmptyContext EXCEPT !.file_path = f] : f \in FilePaths}

VideoWorlds ==
    {[FairWorld EXCEPT !.pytube = p, !.transcript = t, !.ai = a] :
        p \in {"ok", "raise"}, t \in {"words", "", "raise"},
        a \in {"ok", "429", "status", "raise"}}

WebWorlds ==
    {[FairWorld EXCEPT !.fetch = f, !.ai = a] :
        f \in {"ok", "raise"}, a \in {"ok", "429", "status", "raise"}}

DocWorlds ==
    {[FairWorld EXCEPT !.read = r, !.ai = a] :
        r \in FileReads, a \in {"ok", "429", "status", "raise"}}

PWorlds ==
    VideoWorlds \cup WebWorlds \cup DocWorlds \cup {[FairWorld EXCEPT !.automation = "raise"]}

Called(fn, world) ==
    /\ p_fn = ""
    /\ p_fn' = fn
    /\ p_world' = world
    /\ UNCHANGED <<p_query, p_context>>

CallProcessQuery(world) ==
    /\ Called("process_query", world)
    /\ p_result' = process_query(p_query, p_context, world)
    /\ UNCHANGED p_text

CallHandleVideo(world) ==
    /\ Called("_handle_video_analysis", world)
    /\ p_result' = _handle_video_analysis(p_query, p_context, world)
    /\ UNCHANGED p_text

CallHandleWeb(world) ==
    /\ Called("_handle_web_analysis", world)
    /\ p_result' = _handle_web_analysis(p_query, p_context, world)
    /\ UNCHANGED p_text

CallHandleDocument(world) ==
    /\ Called("_handle_document_analysis", world)
    /\ p_result' = _handle_document_analysis(p_query, p_context, world)
    /\ UNCHANGED p_text

CallExtractDocument(world) ==
    /\ p_context.file_path # ""
    /\ Called("_extract_document_content", world)
    /\ p_text' = _extract_document_content(p_context.file_path, world.read)
    /\ UNCHANGED p_result

CallExtractYoutubeId ==
    /\ Called("_extract_youtube_id", FairWorld)
    /\ p_text' = _extract_youtube_id(p_context.url)
    /\ UNCHANGED p_result

\* the actions process_query and its handlers return (lines 505-1152)
Actions ==
    {"system_automation", "automation_error", "document_analysis",
     "document_analysis_error", "video_analysis", "video_analysis_error",
     "web_analysis", "web_analysis_error", "translation", "conversation", "error"}

\* the hosted model failed during the call
AiFailed == p_world.ai # "ok"

\* C14 as the spec states it: the result is well formed, the video handler
\* returns only its two actions, the web handler only its two, and every
\* failure during a call of one of them gives the *_error action.
C14_AsClaimed ==
    /\ p_fn \in {"process_query", "_handle_video_analysis", "_handle_web_analysis"} =>
            /\ p_result.action \in Actions
            /\ p_result.response # <<"", "">>
    /\ (p_fn = "_handle_video_analysis" /\ p_context.url # "") =>
            /\ p_result.action \in {"video_analysis", "video_analysis_error"}
            /\ (\/ _extract_youtube_id(p_context.url) \in {NoneStr, ""}
                \/ p_world.pytube = "raise"
                \/ p_world.transcript = "raise"
                \/ AiFailed) => p_result.action = "video_analysis_error"
    /\ (p_fn = "_handle_web_analysis" /\ p_context.url # "") =>
            /\ p_result.action \in {"web_analysis", "web_analysis_error"}
            /\ (p_world.fetch = "raise" \/ AiFailed) => p_result.action = "web_analysis_error"

\* C14, amended: process_query returns, for every query and context, a dict
\* with a response and an action of the fixed action set; the video handler
\* returns only 'video_analysis' or 'video_analysis_error' and the web handler
\* only 'web_analysis' or 'web_analysis_error'.  The *_error action is
\* returned exactly when the URL is not a video URL, pytube or the transcript
\* service raises (video), or the page cannot be fetched (web); a failure of
\* the hosted model is not mapped to it: the fallback text is put into a
\* response whose action is the success action.
C14_WellFormed ==
    /\ p_fn \in {"process_query", "_handle_video_analysis", "_handle_web_analysis"} =>
            /\ p_result.action \in Actions
            /\ p_result.response # <<"", "">>
    /\ p_fn = "_handle_video_analysis" =>
            /\ p_result.action \in {"video_analysis", "video_analysis_error"}
            /\ p_result.action = "video_analysis_error" <=>
                  /\ p_context.url # ""
                  /\ \/ _extract_youtube_id(p_context.url) \in {NoneStr, ""}
                     \/ p_world.pytube = "raise"
                     \/ p_world.transcript = "raise"
    /\ p_fn = "_handle_web_analysis" =>
            /\ p_result.action \in {"web_analysis", "web_analysis_error"}
            /\ p_result.action = "web_analysis_error" <=>
                  (p_context.url # "" /\ p_world.fetch = "raise")
    /\ (p_fn \in {"_handle_video_analysis", "_handle_web_analysis"}
            /\ p_result.action \in {"video_analysis", "web_analysis"}
            /\ p_context.url # "" /\ AiFailed) => p_result.response[2] = "fallback text"

\* the hosted model failed while a video with a transcript was analysed, and
\* the handler returned the success action
C14_Witness ==
    /\ p_fn = "_handle_video_analysis"
    /\ p_context.url = "https://www.youtube.com/watch?v=dQw4w9WgXcQ"
    /\ p_world.ai = "raise"
    /\ p_result.action = "video_analysis"
    /\ p_result.response[2] = "fallback text"

\* --- claims about documents and video ids ----------------------------------------
SupportedFile(file_path) == SuffixLower(file_path) \in {".pdf", ".docx", ".txt"}

\* the text _extract_document_content is to give for a supported file: what
\* was read (for .pdf and .docx without the white space around it), and the
\* empty text when the file cannot be read
FileText(file_path, read) ==
    IF read = "raise" THEN ""
    ELSE IF SuffixLower(file_path) = ".txt" THEN read
    ELSE IF read = " " THEN "" ELSE read

\* C16: _handle_document_analysis returns 'document_analysis' when the
\* context names a supported file with non-empty content or carries no
\* file_path, and 'document_analysis_error' when the file is of an
\* unsupported type or yields empty content; _extract_document_content
\* returns the text of a supported file and None for an unsupported one, and
\* never raises.
C16_Document ==
    /\ p_fn = "_handle_document_analysis" =>
          LET file_path == p_context.file_path
              good == \/ file_path = ""
                      \/ /\ SupportedFile(file_path)
                         /\ FileText(file_path, p_world.read) # ""
          IN /\ good => p_result.action = "document_analysis"
             /\ ~good => p_result.action = "document_analysis_error"
    /\ p_fn = "_extract_document_content" =>
          /\ SupportedFile(p_context.file_path) =>
                p_text = FileText(p_context.file_path, p_world.read)
          /\ ~SupportedFile(p_context.file_path) => p_text = NoneStr
          /\ p_text # "<raised>"

\* a PDF whose text is white space only was handed to the handler
C16_Witness ==
    /\ p_fn = "_handle_document_analysis"
    /\ p_context.file_path = "SCAN.PDF"
    /\ p_world.read = " "
    /\ p_result.action = "document_analysis_error"

\* the id each URL of the model holds, by the forms of claim C17
ExpectedId(url) ==
    CASE url = "https://www.youtube.com/watch?v=dQw4w9WgXcQ" -> "dQw4w9WgXcQ"
      [] url = "https://youtube.com/embed/abc123" -> "abc123"
      [] url = "https://youtu.be/abc123" -> "abc123"
      [] url = "https://youtu.be/" -> ""
      [] url = "https://www.youtube.com/embed/" -> ""
      [] OTHER -> NoneStr

\* C17: _extract_youtube_id returns the value of v for host youtube.com or
\* www.youtube.com with path /watch, the <id> of path /embed/<id>, the path
\* without its leading slash for host youtu.be, None for every other URL,
\* and never raises.
C17_YoutubeId ==
    p_fn = "_extract_youtube_id" =>
        /\ p_text = ExpectedId(p_context.url)
        /\ p_text # "<raised>"

\* the id of an embed URL was extracted
C17_Witness ==
    /\ p_fn = "_extract_youtube_id"
    /\ p_context.url = "https://youtube.com/embed/abc123"
    /\ p_text = "abc123"

\* ------------------------------------------------------------------------
\* omni_ai_assistant.py: MurfTTSEngine.set_voice and the voice selector
\* ------------------------------------------------------------------------
VARIABLES
    engine_current_voice,   \* MurfTTSEngine.current_voice
    omni_voice_combo,       \* the entry the voice selector shows as selected
    status_voice,           \* the voice the status line names, "" before a change
    set_voice_arg,          \* the voice id of the last set_voice call, "" before one
    set_voice_returned      \* what that call returned

voiceVars ==
    <<engine_current_voice, omni_voice_combo, status_voice, set_voice_arg,
      set_voice_returned>>

\* the keys of _load_voices (lines 85-125)
available_voices ==
    {"en-AU-jimm", "en-UK-hazel", "en-AU-kylie", "en-US-cooper", "en-US-imani",
     "en-US-wayne", "en-US-daniel", "en-UK-gabriel", "en-AU-joyce", "en-IN-isha",
     "hi-IN-rahul", "hi-IN-shweta", "hi-IN-amit", "hi-IN-ayushi", "es-ES-enrique",
     "es-ES-lola", "fr-FR-emilie", "fr-FR-henri", "de-DE-ingrid", "de-DE-werner",
     "ja-JP-akira", "ja-JP-himari", "zh-CN-sienna", "zh-CN-wang"}

\* the entry create_widgets selects (line 1254)
PreselectedVoice == "en-US-terrell"

\* MurfTTSEngine.__init__ (line 70) and create_widgets
VoiceIdle ==
    /\ engine_current_voice = "en-AU-jimm"
    /\ omni_voice_combo = PreselectedVoice
    /\ status_voice = ""
    /\ set_voice_arg = ""
    /\ set_voice_returned = FALSE

\* set_voice (lines 127-133)
set_voice(voice_id) ==
    /\ set_voice_arg' = voice_id
    /\ IF voice_id \in available_voices
       THEN /\ engine_current_voice' = voice_id
            /\ set_voice_returned' = TRUE
       ELSE /\ set_voice_returned' = FALSE
            /\ UNCHANGED engine_current_voice

\* the engine is asked directly, as test_murf_tts_engine does
SetVoiceCall(voice_id) ==
    /\ set_voice(voice_id)
    /\ UNCHANGED <<omni_voice_combo, status_voice>>

\* on_voice_change (lines 1553-1563): the user picks an entry of the list
on_voice_change(choice) ==
    /\ omni_voice_combo' = choice
    /\ set_voice(choice)
    /\ status_voice' = IF choice \in available_voices THEN choice ELSE "Unknown"

\* the voice ids the selector can show as selected
ShownVoices == available_voices \cup {PreselectedVoice}

\* C15 as the spec states it: set_voice returns True for every voice id the
\* selector can show as selected, the pre-selected 'en-US-terrell' included,
\* and that id becomes current_voice.
C15_AsClaimed ==
    set_voice_arg \in ShownVoices =>
        /\ set_voice_returned
        /\ engine_current_voice = set_voice_arg

\* ------------------------------------------------------------------------
\* The QThread clients with a ledger of the messages submitted: which
\* message a run took up and how many outcomes each message got.  The id
\* of a message is its number in the order of submission, so that the
\* message set_message stored last has the id `requests`.
\* ------------------------------------------------------------------------
VARIABLES
    l_run,        \* ghost: the id of the message run() read
    l_answered    \* ghost: per id, the outcomes (signals) emitted for it

ledgerVars == <<l_run, l_answered>>

LedgerIdle ==
    /\ l_run = 0
    /\ l_answered = [k \in 1..MaxLedger |-> 0]

\* send_quick_message (conversational_murf_ai.py 1446-1448) and send_message
\* (simple_app.py 380-381) hand a message to the client
LedgerSubmit(message) ==
    /\ requests < MaxLedger
    /\ ChatRequest(message)
    /\ UNCHANGED ledgerVars

\* run() reads user_message (conversational 709/716, simple_app 66); in demo
\* mode it emits the reply at once
LedgerRunBegin ==
    /\ ConvRunAppend \/ SimpleRunBegin
    /\ l_run' = requests
    /\ l_answered' = IF ai_pc' = "emitted"
                     THEN [l_answered EXCEPT ![requests] = @ + 1]
                     ELSE l_answered

LedgerPost ==
    /\ ConvRunPost
    /\ UNCHANGED ledgerVars

\* the request ends and run() emits response_ready or error_occurred
LedgerRespond ==
    /\ \/ \E r \in ChatReplies : ConvRespondOk(r)
       \/ ConvRespondStatus
       \/ ConvRaise
       \/ \E r \in ChatReplies : SimpleRespondOk(r)
       \/ SimpleRespondStatus
       \/ SimpleRaise
    /\ l_answered' = [l_answered EXCEPT ![l_run] = @ + 1]
    /\ UNCHANGED l_run

LedgerFinish ==
    /\ RunFinish
    /\ UNCHANGED ledgerVars

\* on_ai_response / on_ai_error take the signal
LedgerSlot ==
    /\ SlotRuns
    /\ UNCHANGED ledgerVars

\* C18 as the spec states it: every message submitted is eventually followed
\* by exactly one on_ai_response or on_ai_error computed for that very
\* message, also when it is submitted while the worker is processing an
\* earlier one.
C18_AsClaimed ==
    /\ [](\A k \in 1..MaxLedger : l_answered[k] <= 1)
    /\ \A k \in 1..MaxLedger : (requests >= k) ~> (l_answered[k] = 1)

\* ------------------------------------------------------------------------
\* conversational_murf_ai.py: the threads of speak_text (lines 1499-1541).
\* A QThread started by speak_text calls generate_speech ("working"), then
\* runs its event loop ("looping") until quit() reaches it ("quitting"), and
\* ends ("finished"); the signals of worker and thread are queued for the
\* window's event loop.
\* ------------------------------------------------------------------------
VARIABLES
    _tts_thread,     \* the thread the window references, 0 for None
    _tts_worker,     \* the worker the window references, 0 for None
    tts_threads,     \* per thread created so far: where it stands
    tts_events,      \* the queued signals the window has not yet handled
    speaks           \* the calls of speak_text so far

speechVars == <<_tts_thread, _tts_worker, tts_threads, tts_events, speaks>>

SpeechIdle ==
    /\ _tts_thread = 0
    /\ _tts_worker = 0
    /\ tts_threads = <<>>
    /\ tts_events = <<>>
    /\ speaks = 0

\* QThread.isRunning()
ThreadRunning(t) == tts_threads[t] \in {"working", "looping", "quitting"}

RunningThreads == {t \in 1..Len(tts_threads) : ThreadRunning(t)}

SpeechEvent(signal, t) == [signal |-> signal, thread |-> t]

\* lines 1505-1509: quit() and wait() on the referenced thread when it is
\* running: the window blocks until the thread has ended; a thread still in
\* generate_speech first emits its outcome, and the ended thread emits
\* finished
WaitedEvents(outcome) ==
    IF _tts_thread # 0 /\ ThreadRunning(_tts_thread)
    THEN (IF tts_threads[_tts_thread] = "working"
          THEN <<SpeechEvent(outcome, _tts_thread)>> ELSE <<>>)
             \o <<SpeechEvent("finished", _tts_thread)>>
    ELSE <<>>

WaitedThreads ==
    IF _tts_thread # 0 /\ ThreadRunning(_tts_thread)
    THEN [tts_threads EXCEPT ![_tts_thread] = "finished"]
    ELSE tts_threads

\* speak_text (1499-1535); blank is `not text.strip()`, outcome what a thread
\* waited for ends its generate_speech with
speak_text_threads(blank, outcome) ==
    /\ speaks < MaxSpeaks
    /\ speaks' = speaks + 1
    /\ IF blank
       THEN UNCHANGED <<_tts_thread, _tts_worker, tts_threads, tts_events>>
       ELSE /\ tts_events' = tts_events \o WaitedEvents(outcome)
            /\ tts_threads' = Append(WaitedThreads, "working")
            /\ _tts_worker' = Len(tts_threads) + 1
            /\ _tts_thread' = Len(tts_threads) + 1

\* SpeechWorker.generate_speech (355-377) ends: speech_ready or speech_error
\* is emitted, and the thread enters its event loop
GenerateSpeechEnds(t, outcome) ==
    /\ t \in 1..Len(tts_threads)
    /\ tts_threads[t] = "working"
    /\ tts_threads' = [tts_threads EXCEPT ![t] = "looping"]
    /\ tts_events' = Append(tts_events, SpeechEvent(outcome, t))
    /\ UNCHANGED <<_tts_thread, _tts_worker, speaks>>

\* the thread leaves its event loop and emits finished (lines 1530-1531)
ThreadEnds(t) ==
    /\ t \in 1..Len(tts_threads)
    /\ tts_threads[t] = "quitting"
    /\ tts_threads' = [tts_threads EXCEPT ![t] = "finished"]
    /\ tts_events' = Append(tts_events, SpeechEvent("finished", t))
    /\ UNCHANGED <<_tts_thread, _tts_worker, speaks>>

\* the window handles speech_ready / speech_error of a worker: its slot
\* (1543-1570) and the thread's quit (lines 1526-1529)
SpeechOutcomeHandled ==
    /\ tts_events # <<>>
    /\ Head(tts_events).signal \in {"speech_ready", "speech_error"}
    /\ tts_events' = Tail(tts_events)
    /\ tts_threads' =
          IF tts_threads[Head(tts_events).thread] = "looping"
          THEN [tts_threads EXCEPT ![Head(tts_events).thread] = "quitting"]
          ELSE tts_threads
    /\ UNCHANGED <<_tts_thread, _tts_worker, speaks>>

\* _on_tts_thread_finished (1537-1541)
_on_tts_thread_finished ==
    /\ tts_events # <<>>
    /\ Head(tts_events).signal = "finished"
    /\ tts_events' = Tail(tts_events)
    /\ _tts_thread' = 0
    /\ _tts_worker' = 0
    /\ UNCHANGED <<tts_threads, speaks>>

\* C19 as the spec states it: at most one TTS worker thread runs at a time,
\* and whenever one is running, _tts_thread and _tts_worker reference that
\* thread and its worker; the finished-callback of an earlier thread never
\* clears the references to a later one.
C19_AsClaimed ==
    /\ Cardinality(RunningThreads) <= 1
    /\ \A t \in RunningThreads : _tts_thread = t /\ _tts_worker = t

\* --- clearing the conversation while the client thread runs ---------------------
\* conversational_murf_ai.py: clear_conversation (1697-1718) runs in the GUI
\* thread, run() (704-760) in the ConversationalAI thread; both work on the
\* one conversation_history.  Each entry of the history is followed by the
\* number of clears that had been confirmed when its request was submitted.
VARIABLES clears_done, submitted_after, run_after, origin, sent_origin,
          sent_after, just_cleared

clearingVars == <<clears_done, submitted_after, run_after, origin, sent_origin,
                  sent_after, just_cleared>>

ClearingIdle ==
    /\ clears_done = 0
    /\ submitted_after = 0
    /\ run_after = 0
    /\ origin = <<0>>
    /\ sent_origin = <<>>
    /\ sent_after = 0
    /\ just_cleared = FALSE

\* send_quick_message (1446-1448): set_message and start
ClearingSubmit(message) ==
    /\ requests < MaxClearRequests
    /\ ChatRequest(message)
    /\ submitted_after' = clears_done
    /\ UNCHANGED <<clears_done, run_after, origin, sent_origin, sent_after,
                   just_cleared>>

\* clear_conversation answered Yes (1706-1712): ai_client.clear_history()
ClearingConfirmed ==
    /\ clears_done < MaxClears
    /\ ChatClear
    /\ clears_done' = clears_done + 1
    /\ origin' = <<0>>
    /\ just_cleared' = TRUE
    /\ UNCHANGED <<submitted_after, run_after, sent_origin, sent_after>>

\* run() lines 709-721
ClearingRunAppend ==
    /\ ConvRunAppend
    /\ run_after' = submitted_after
    /\ IF github_token = "placeholder"
       THEN UNCHANGED <<origin, just_cleared>>
       ELSE /\ origin' = Truncate(Append(origin, submitted_after))
            /\ just_cleared' = FALSE
    /\ UNCHANGED <<clears_done, submitted_after, sent_origin, sent_after>>

\* run() lines 724-741: the request goes out
ClearingPost ==
    /\ ConvRunPost
    /\ sent_origin' = origin
    /\ sent_after' = clears_done
    /\ UNCHANGED <<clears_done, submitted_after, run_after, origin, just_cleared>>

\* run() lines 743-751: the reply of the request joins the history
ClearingRespondOk(reply) ==
    /\ ConvRespondOk(reply)
    /\ origin' = Append(origin, run_after)
    /\ just_cleared' = FALSE
    /\ UNCHANGED <<clears_done, submitted_after, run_after, sent_origin, sent_after>>

\* run() lines 752-760
ClearingRespondFails ==
    /\ ConvRespondStatus \/ ConvRaise
    /\ UNCHANGED clearingVars

ClearingFinish ==
    /\ RunFinish
    /\ UNCHANGED clearingVars

ClearingSlot ==
    /\ SlotRuns
    /\ UNCHANGED clearingVars

\* the entries of a sequence of origins that stem from before the clear
StaleIn(origins, after) ==
    {n \in 2..Len(origins) : origins[n] < after}

\* C20: after a confirmed clear the history is exactly the system prompt, and
\* no request that goes out after a clear holds a user or assistant message
\* of a request submitted before that clear, a request in flight at the
\* moment of the clear included
C20_AsClaimed ==
    /\ just_cleared => conversation_history = <<SystemEntry>>
    /\ StaleIn(sent_origin, sent_after) = {}

\* C20, the part that holds: right after the clear, and until run() next
\* writes to it, the history is exactly the system prompt
C20_ClearedNow ==
    just_cleared => conversation_history = <<SystemEntry>>

\* --- the context a command is processed with ------------------------------------
\* C21: the worker processes the commands in the order of their submission,
\* each once, and each with the analysis context that was set when it was
\* enqueued (the empty context for typed text): the i-th processed command
\* is the i-th submitted one, with the i-th submitted context.
C21_AsClaimed ==
    /\ Len(o_log) <= Len(o_submitted)
    /\ \A i \in 1..Len(o_log) :
          /\ o_log[i].command = o_submitted[i].command
          /\ o_log[i].context = o_submitted[i].context

\* C21, the part that holds: order and exactly-once
C21_InOrderOnce ==
    /\ Len(o_log) <= Len(o_submitted)
    /\ \A i \in 1..Len(o_log) : o_log[i].command = o_submitted[i].command

\* --- VoiceListener (app.py 302-388, murf_ai_assistant.py 210-266) ----------------
\* listener_pc is where the listener thread is: "idle" (not running: never
\* started, or run() has returned), "started" (start() called, run() not yet
\* entered), "test" (at the while test), "body" (inside the loop), "exiting"
\* (past the loop, run() not yet returned: ListenerIsRunning() is still True)
VARIABLES listener_program, recognizer, listening, listener_pc, listener_status,
          toggles

listenerVars == <<listener_program, recognizer, listening, listener_pc,
                  listener_status, toggles>>

ListenerIdle ==
    /\ listener_program = "app"
    /\ recognizer = FALSE
    /\ listening = FALSE
    /\ listener_pc = "idle"
    /\ listener_status = ""
    /\ toggles = 0

\* QThread.isRunning()
ListenerIsRunning == listener_pc # "idle"

\* start_listening: app.py 330-335 (guarded by the recognizer and by the
\* flag), murf_ai_assistant.py 226-230 (unguarded)
start_listening ==
    /\ toggles < MaxToggles
    /\ toggles' = toggles + 1
    /\ IF listener_program = "app" /\ ~(recognizer /\ ~listening)
       THEN UNCHANGED <<listening, listener_pc>>
       ELSE /\ listening' = TRUE
            /\ listener_pc' = IF ListenerIsRunning THEN listener_pc ELSE "started"
    /\ UNCHANGED <<listener_program, recognizer, listener_status>>

\* stop_listening: app.py 337-339, murf_ai_assistant.py 232-234
stop_listening ==
    /\ toggles < MaxToggles
    /\ toggles' = toggles + 1
    /\ listening' = FALSE
    /\ UNCHANGED <<listener_program, recognizer, listener_pc, listener_status>>

\* run() is entered; app.py 343-345 returns at once without a recognizer
ListenerRunEnters ==
    /\ listener_pc = "started"
    /\ IF listener_program = "app" /\ ~recognizer
       THEN /\ listener_status' = "Voice recognition not available"
            /\ listener_pc' = "idle"
       ELSE /\ listener_pc' = "test"
            /\ UNCHANGED listener_status
    /\ UNCHANGED <<listener_program, recognizer, listening, toggles>>

\* while self.listening (app.py 347, murf_ai_assistant.py 238)
ListenerTest ==
    /\ listener_pc = "test"
    /\ listener_pc' = IF listening THEN "body" ELSE "exiting"
    /\ UNCHANGED <<listener_program, recognizer, listening, listener_status, toggles>>

\* what one pass of the loop ends with
ListenOutcomes == {"heard", "timeout", "unknown", "request_error", "exception"}

\* the last status_changed of one pass: app.py 348-385, murf 239-264
StatusAfter(which, outcome) ==
    IF outcome \in {"timeout", "exception"} THEN "Listening..."
    ELSE IF which = "app"
         THEN IF outcome = "request_error" THEN "Speech service error"
              ELSE "Processing..."
         ELSE IF outcome = "unknown" THEN "Could not understand audio"
              ELSE IF outcome = "request_error" THEN "Speech recognition error"
              ELSE "Processing..."

\* one pass of the loop; every exception is caught inside it
ListenerBody(outcome) ==
    /\ listener_pc = "body"
    /\ listener_status' = StatusAfter(listener_program, outcome)
    /\ listener_pc' = "test"
    /\ UNCHANGED <<listener_program, recognizer, listening, toggles>>

\* app.py 387, murf 266: the last emit, then run() returns
ListenerRunReturns ==
    /\ listener_pc = "exiting"
    /\ listener_status' = "Stopped listening"
    /\ listener_pc' = "idle"
    /\ UNCHANGED <<listener_program, recognizer, listening, toggles>>

\* C22: whenever the listening flag is True, the listener thread is running
\* (started, in its loop, or on its way out of run()): the flag is never True
\* while the thread has exited
C22_AsClaimed == listening => ListenerIsRunning

\* --- AudioPlayer (conversational_murf_ai.py 835-916) -----------------------------
\* Buffers are numbered in the order they are handed to play_audio; 0 is
\* None.  player_pc is where the player thread is: "idle" (not running),
\* "started" (start() called, run() not yet at line 875), "playing" (the
\* buffer is written to the file and played), "ending" (the signal is
\* emitted, run() has not yet returned: isRunning() is still True).
VARIABLES player_available, audio_data, player_pc, player_buffer, handed,
          played, reported

playerVars == <<player_available, audio_data, player_pc, player_buffer, handed,
                played, reported>>

PlayerIdle ==
    /\ player_available = FALSE
    /\ audio_data = 0
    /\ player_pc = "idle"
    /\ player_buffer = 0
    /\ handed = 0
    /\ played = [k \in 1..MaxBuffers |-> 0]
    /\ reported = [k \in 1..MaxBuffers |-> 0]

\* play_audio (861-870), called by on_speech_ready (1552) with the next buffer
play_audio ==
    /\ handed < MaxBuffers
    /\ handed' = handed + 1
    /\ IF ~player_available
       THEN /\ reported' = [reported EXCEPT ![handed + 1] = @ + 1]
            /\ UNCHANGED <<audio_data, player_pc>>
       ELSE /\ audio_data' = handed + 1
            /\ player_pc' = IF player_pc = "idle" THEN "started" ELSE player_pc
            /\ UNCHANGED reported
    /\ UNCHANGED <<player_available, player_buffer, played>>

\* run() lines 875-882: audio_data is read and written to the file
PlayerReads ==
    /\ player_pc = "started"
    /\ IF audio_data = 0 \/ ~player_available
       THEN player_pc' = "idle" /\ UNCHANGED player_buffer
       ELSE player_pc' = "playing" /\ player_buffer' = audio_data
    /\ UNCHANGED <<player_available, audio_data, handed, played, reported>>

\* run() lines 885-898: the music has played to its end, playback_finished
PlayerFinishes ==
    /\ player_pc = "playing"
    /\ played' = [played EXCEPT ![player_buffer] = @ + 1]
    /\ player_pc' = "ending"
    /\ UNCHANGED <<player_available, audio_data, player_buffer, handed, reported>>

\* run() lines 900-904: load or play raised, playback_error
PlayerFails ==
    /\ player_pc = "playing"
    /\ reported' = [reported EXCEPT ![player_buffer] = @ + 1]
    /\ player_pc' = "ending"
    /\ UNCHANGED <<player_available, audio_data, player_buffer, handed, played>>

\* run() returns
PlayerReturns ==
    /\ player_pc = "ending"
    /\ player_pc' = "idle"
    /\ player_buffer' = 0
    /\ UNCHANGED <<player_available, audio_data, handed, played, reported>>

\* C23: with pygame available, every buffer handed to play_audio is in the
\* end played to completion or reported through playback_error, and none is
\* played twice
C23_AsClaimed ==
    /\ [](\A k \in 1..MaxBuffers : played[k] <= 1)
    /\ \A k \in 1..MaxBuffers :
          (player_available /\ handed >= k) ~> (played[k] + reported[k] >= 1)

\* C23, the parts that hold: no buffer is played twice, none is both played
\* and reported, and a buffer handed over while the player thread is not
\* running is the one played next
C23_NotTwice ==
    /\ \A k \in 1..MaxBuffers : played[k] + reported[k] <= 1
    /\ player_pc = "playing" => player_buffer \in 1..handed

\* --- which entry on_speech_ready marks -------------------------------------------
\* speaking follows the SpeechWorker results on their way to the window, in
\* the order speak_text was called: for each, the index in
\* conversation_messages of the entry whose text was passed to speak_text (0
\* for a text that is no entry, the test sentence).  last_mark is what the
\* last on_speech_ready did: the entry it was meant for, the entry it marked.
VARIABLES speaking, last_mark

markingVars == <<speaking, last_mark>>

NoMark == [meant |-> 0, marked |-> 0, done |-> FALSE]

MarkingIdle ==
    /\ speaking = <<>>
    /\ last_mark = NoMark

\* speak_text (1499-1535) was called for the entry at target, and started a
\* SpeechWorker unless the text was blank
Spoke(target) ==
    /\ speaking' = IF tts_pending' > tts_pending THEN Append(speaking, target)
                   ELSE speaking
    /\ UNCHANGED last_mark

\* on_ai_response (1479-1484): the assistant entry is appended and spoken
MarkingOnAiResponse ==
    /\ OnAiResponse
    /\ Spoke(Len(conversation_messages'))

\* test_current_voice (1692-1695): the test sentence is spoken
MarkingTestCurrentVoice ==
    /\ TestCurrentVoice
    /\ Spoke(0)

\* speak_last_message (1647-1653): the last assistant entry is spoken
MarkingSpeakLastMessage ==
    /\ SpeakLastMessage
    /\ LET at == {n \in 1..Len(conversation_messages) :
                     conversation_messages[n].role = "assistant"}
       IN Spoke(IF at = {} THEN 0 ELSE CHOOSE n \in at : \A m \in at : m <= n)

\* on_speech_ready (1543-1559): conversation_messages[-1].has_audio = True
MarkingOnSpeechReady ==
    /\ OnSpeechReady
    /\ speaking' = Tail(speaking)
    /\ last_mark' = [meant |-> Head(speaking),
                     marked |-> Len(conversation_messages), done |-> TRUE]

\* on_speech_error (1561-1565)
MarkingOnSpeechError ==
    /\ OnSpeechError
    /\ speaking' = Tail(speaking)
    /\ UNCHANGED last_mark

\* the handlers that start no speech and handle none
MarkingOther ==
    /\ \/ \E m \in QuickMessages : SendQuickMessage(m)
       \/ OnAiError
       \/ OnAudioFinished
       \/ OnAudioError
    /\ UNCHANGED markingVars

\* C24: when speech_ready arrives, the entry that gets has_audio is the
\* entry whose text was passed to speak_text; a speech that belongs to no
\* entry (the test sentence) marks none
C24_AsClaimed ==
    last_mark.done =>
        /\ last_mark.meant # 0 => last_mark.marked = last_mark.meant
        /\ last_mark.meant = 0 =>
              \A n \in 1..Len(conversation_messages) :
                 ~conversation_messages[n].has_audio

\* --- process_user_input (app.py 988-1017, murf_ai_assistant.py 600-625) -----------
\* The user's turns are numbered in the order they are made.  An entry of
\* agent_history keeps, next to role and content, the turn a user entry
\* belongs to (0 for the others); the content is the decoration the window
\* puts before the text ("" for none) and the text.
VARIABLES input_program, voice_enabled, agent_history, turns, pui_pc, pui_text,
          pui_messages

inputVars == <<input_program, voice_enabled, agent_history, turns, pui_pc, pui_text,
               pui_messages>>

AgentMessage(role, shown, text, turn) ==
    [role |-> role, shown |-> shown, text |-> text, turn |-> turn]

ReadyMessage == AgentMessage("system", "ready", "", 0)

InputIdle ==
    /\ input_program = "app"
    /\ voice_enabled = FALSE
    /\ agent_history = <<>>
    /\ turns = 0
    /\ pui_pc = [t \in 1..MaxTurns |-> "none"]
    /\ pui_text = [t \in 1..MaxTurns |-> ""]
    /\ pui_messages = [t \in 1..MaxTurns |-> <<>>]

\* add_message (app.py 953-970, murf_ai_assistant.py 575-593): the entry is
\* stored in the history
agent_add_message(history, role, shown, text, turn) ==
    Append(history, AgentMessage(role, shown, text, turn))

\* app.py 995-998, murf 607-610: the entries of the last five that are not
\* system entries
ContextOf(history) ==
    SelectSeq(LastN(history, ContextLast), LAMBDA msg : msg.role # "system")

\* app.py 995-1000, murf 607-612: the messages of the request
BuildMessages(history, text, turn) ==
    Append(ContextOf(history), AgentMessage("user", "", text, turn))

\* the window notes the input in the history and creates the task:
\* send_manual_message (app.py 921-927, murf 556-562; text is the input
\* stripped) and on_voice_detected (app.py 857-861, murf 527-533)
UserTurn(shown, text) ==
    /\ turns < MaxTurns
    /\ IF text = ""
       THEN UNCHANGED <<agent_history, turns, pui_pc, pui_text>>
       ELSE /\ turns' = turns + 1
            /\ agent_history' =
                  agent_add_message(agent_history, "user", shown, text, turns + 1)
            /\ pui_pc' = [pui_pc EXCEPT ![turns + 1] = "created"]
            /\ pui_text' = [pui_text EXCEPT ![turns + 1] = text]
    /\ UNCHANGED <<input_program, voice_enabled, pui_messages>>

send_manual_message(text) == UserTurn("Text: ", text)

on_voice_detected(text) == text # "" /\ UserTurn("Voice: ", text)

\* toggle_voice (app.py 904-910)
toggle_voice ==
    /\ input_program = "app"
    /\ turns < MaxTurns
    /\ voice_enabled' = ~voice_enabled
    /\ UNCHANGED <<input_program, agent_history, turns, pui_pc, pui_text,
                   pui_messages>>

\* process_user_input up to its first await (app.py 990-1004): the event
\* loop starts the tasks in the order they were created
ProcessBuilds(t) ==
    /\ pui_pc[t] = "created"
    /\ \A u \in 1..MaxTurns : u < t => pui_pc[u] # "created"
    /\ pui_messages' =
          [pui_messages EXCEPT ![t] = BuildMessages(agent_history, pui_text[t], t)]
    /\ pui_pc' = [pui_pc EXCEPT ![t] = "awaiting"]
    /\ UNCHANGED <<input_program, voice_enabled, agent_history, turns, pui_text>>

\* whether process_user_input goes on to speak_text (app.py 1009, murf 622)
Speaks == input_program = "murf_ai_assistant" \/ voice_enabled

\* chat_completion has returned (app.py 1005-1010, murf 619-622): the reply
\* is noted; murf's speak_text notes 'Generating voice' before its first
\* await (line 630)
ProcessReplied(t, reply) ==
    /\ pui_pc[t] = "awaiting"
    /\ agent_history' =
          LET noted == agent_add_message(agent_history, "assistant", "", reply, 0)
          IN IF input_program = "murf_ai_assistant"
             THEN agent_add_message(noted, "system", "Generating voice", "", 0)
             ELSE noted
    /\ pui_pc' = [pui_pc EXCEPT ![t] = IF Speaks THEN "speaking" ELSE "done"]
    /\ UNCHANGED <<input_program, voice_enabled, turns, pui_text, pui_messages>>

\* chat_completion raised (app.py 1012-1015, murf 624-626)
ProcessRaised(t) ==
    /\ pui_pc[t] = "awaiting"
    /\ agent_history' = agent_add_message(agent_history, "system", "Error: ", "", 0)
    /\ pui_pc' = [pui_pc EXCEPT ![t] = "done"]
    /\ UNCHANGED <<input_program, voice_enabled, turns, pui_text, pui_messages>>

\* speak_text after text_to_speech (app.py 1027-1054, murf 635-656): every
\* way out of it notes one system message
ProcessSpoke(t) ==
    /\ pui_pc[t] = "speaking"
    /\ agent_history' = agent_add_message(agent_history, "system", "Voice", "", 0)
    /\ pui_pc' = [pui_pc EXCEPT ![t] = "done"]
    /\ UNCHANGED <<input_program, voice_enabled, turns, pui_text, pui_messages>>

\* the turns whose request has been built
Built == {t \in 1..MaxTurns : pui_pc[t] \in {"awaiting", "speaking", "done"}}

\* the entries of a request that stand for the given turn
EntriesOf(messages, t) == {n \in 1..Len(messages) : messages[n].turn = t}

\* C26: the request of a turn has at most 6 entries, holds no system entry,
\* ends with the user entry of the raw input text, and the turn is
\* represented in it by exactly one entry
C26_AsClaimed ==
    \A t \in Built :
       /\ Len(pui_messages[t]) <= ContextLast + 1
       /\ \A n \in 1..Len(pui_messages[t]) : pui_messages[t][n].role # "system"
       /\ pui_messages[t][Len(pui_messages[t])] =
             AgentMessage("user", "", pui_text[t], t)
       /\ Cardinality(EntriesOf(pui_messages[t], t)) = 1

\* C26, the part that holds: at most 6 entries, none of them a system entry,
\* the last one the raw input text; the turn is represented once or twice
C26_Shape ==
    \A t \in Built :
       /\ Len(pui_messages[t]) <= ContextLast + 1
       /\ \A n \in 1..Len(pui_messages[t]) : pui_messages[t][n].role # "system"
       /\ pui_messages[t][Len(pui_messages[t])] =
             AgentMessage("user", "", pui_text[t], t)
       /\ Cardinality(EntriesOf(pui_messages[t], t)) \in {1, 2}

\* ========================================================================
\* Specifications
\* ========================================================================
moreVars == <<ttsVars, omniVars, processorVars, voiceVars, ledgerVars,
              speechVars, clearingVars,
              listenerVars,
              playerVars,
              markingVars,
              inputVars>>

MoreIdle ==
    /\ TtsIdle /\ OmniIdle /\ ProcessorIdle /\ VoiceIdle /\ LedgerIdle /\ SpeechIdle
    /\ ClearingIdle
    /\ ListenerIdle
    /\ PlayerIdle
    /\ MarkingIdle
    /\ InputIdle

vars == <<extractVars, executeVars, detectVars, chatVars, windowVars, moreVars>>

\* every part of the program but the named ones is at rest
OthersIdle(parts) ==
    /\ ExtractIdle
    /\ ExecuteIdle
    /\ DetectIdle
    /\ WindowIdle
    /\ "chat" \in parts \/ ChatIdle
    /\ "tts" \in parts \/ TtsIdle
    /\ "omni" \in parts \/ OmniIdle
    /\ "processor" \in parts \/ ProcessorIdle
    /\ "voice" \in parts \/ VoiceIdle
    /\ "ledger" \in parts \/ LedgerIdle
    /\ "speech" \in parts \/ SpeechIdle
    /\ "clearing" \in parts \/ ClearingIdle
    /\ "listener" \in parts \/ ListenerIdle
    /\ "player" \in parts \/ PlayerIdle
    /\ "marking" \in parts \/ MarkingIdle
    /\ "input" \in parts \/ InputIdle

\* every part of the program but the named ones stays as it is
Others(parts) ==
    /\ UNCHANGED <<extractVars, executeVars, detectVars>>
    /\ IF "window" \in parts THEN TRUE ELSE UNCHANGED windowVars
    /\ IF "chat" \in parts THEN TRUE ELSE UNCHANGED chatVars
    /\ IF "tts" \in parts THEN TRUE ELSE UNCHANGED ttsVars
    /\ IF "omni" \in parts THEN TRUE ELSE UNCHANGED omniVars
    /\ IF "processor" \in parts THEN TRUE ELSE UNCHANGED processorVars
    /\ IF "voice" \in parts THEN TRUE ELSE UNCHANGED voiceVars
    /\ IF "ledger" \in parts THEN TRUE ELSE UNCHANGED ledgerVars
    /\ IF "speech" \in parts THEN TRUE ELSE UNCHANGED speechVars
    /\ IF "clearing" \in parts THEN TRUE ELSE UNCHANGED clearingVars
    /\ IF "listener" \in parts THEN TRUE ELSE UNCHANGED listenerVars
    /\ IF "player" \in parts THEN TRUE ELSE UNCHANGED playerVars
    /\ IF "marking" \in parts THEN TRUE ELSE UNCHANGED markingVars
    /\ IF "input" \in parts THEN TRUE ELSE UNCHANGED inputVars

InitExtract ==
    /\ x_reply \in {Text(s, "en") : s \in SeqsUpTo(ExtractAlphabet, MaxReplyLen)}
    /\ x_result = None
    /\ x_done = FALSE
    /\ ExecuteIdle
    /\ DetectIdle
    /\ ChatIdle
    /\ WindowIdle
    /\ MoreIdle

NextExtract == ExtractCall /\ UNCHANGED <<executeVars, detectVars, chatVars, windowVars, moreVars>>

SpecExtract == InitExtract /\ [][NextExtract]_vars

InitExecute ==
    /\ e_action \in ExecDicts
    /\ e_platform \in Platforms
    /\ e_failing \in ExecFailures
    /\ e_automation \in BOOLEAN
    /\ e_out = Outcome("", <<>>, FALSE)
    /\ e_done = FALSE
    /\ ExtractIdle
    /\ DetectIdle
    /\ ChatIdle
    /\ WindowIdle
    /\ MoreIdle

NextExecute == ExecuteCall /\ UNCHANGED <<extractVars, detectVars, chatVars, windowVars, moreVars>>

SpecExecute == InitExecute /\ [][NextExecute]_vars

InitDetect ==
    /\ d_text \in {Text(s, l) : s \in SeqsUpTo(DetectAlphabet, MaxTextLen), l \in Langs}
    /\ d_voice \in {DefaultVoice, "hi-IN-amit"}
    /\ d_available \in BOOLEAN
    /\ d_results = <<>>
    /\ d_window_voice = d_voice
    /\ ExtractIdle
    /\ ExecuteIdle
    /\ ChatIdle
    /\ WindowIdle
    /\ MoreIdle

NextDetect ==
    \/ DetectCall /\ UNCHANGED <<extractVars, executeVars, chatVars, windowVars, moreVars>>
    \/ CallerAssign /\ UNCHANGED <<extractVars, executeVars, chatVars, windowVars, moreVars>>

SpecDetect == InitDetect /\ [][NextDetect]_vars

InitChat ==
    /\ program \in {"conversational", "simple", "app"}
    /\ github_token \in {"real", "placeholder"}
    /\ conversation_history =
          IF program = "conversational" THEN <<SystemEntry>> ELSE <<>>
    /\ user_message = NoText
    /\ ai_pc = "idle"
    /\ payload = <<>>
    /\ outbox = <<>>
    /\ run_message = NoText
    /\ recent = <<>>
    /\ appended = 0
    /\ cleared_mid_run = FALSE
    /\ requests = 0
    /\ ExtractIdle
    /\ ExecuteIdle
    /\ DetectIdle
    /\ WindowIdle
    /\ MoreIdle

ChatStep ==
    \/ \E m \in ChatUserTexts : ChatRequest(m)
    \/ ChatClear
    \/ SlotRuns
    \/ ConvRunAppend
    \/ ConvRunPost
    \/ \E r \in ChatReplies : ConvRespondOk(r)
    \/ ConvRespondStatus
    \/ ConvRaise
    \/ RunFinish
    \/ SimpleRunBegin
    \/ \E r \in ChatReplies : SimpleRespondOk(r)
    \/ SimpleRespondStatus
    \/ SimpleRaise
    \/ \E msgs \in AppMessageLists : AppChatBegin(msgs)
    \/ \E r \in ChatReplies : AppRespondOk(r)
    \/ AppRespondStatus
    \/ AppRaise

NextChat ==
    ChatStep /\ UNCHANGED <<extractVars, executeVars, detectVars, windowVars, moreVars>>

SpecChat == InitChat /\ [][NextChat]_vars

\* the window after __init__ (lines 921-974) on Linux with pyautogui, in an
\* environment: whether langdetect and pygame are there, and which token is
\* configured
Init ==
    /\ program = "conversational"
    /\ github_token \in {"real", "placeholder"}
    /\ conversation_history = <<SystemEntry>>
    /\ user_message = NoText
    /\ ai_pc = "idle"
    /\ payload = <<>>
    /\ outbox = <<>>
    /\ run_message = NoText
    /\ recent = <<>>
    /\ appended = 0
    /\ cleared_mid_run = FALSE
    /\ requests = 0
    /\ conversation_messages =
          <<WelcomeMessage,
            IF github_token = "placeholder" THEN DemoModeMessage
            ELSE ConnectedMessage>>
    /\ current_voice = DefaultVoice
    /\ voice_combo = "hi-IN-amit"
    /\ auto_speak = TRUE
    /\ auto_voice_switch = TRUE
    /\ conversation_count = 0
    /\ progress_visible = FALSE
    /\ send_enabled = TRUE
    /\ dialog_open = FALSE
    /\ tts_pending = 0
    /\ audio_pc = "idle"
    /\ voice_pc = "idle"
    /\ pygame_available \in BOOLEAN
    /\ clicks = 0
    /\ w_op = "none"
    /\ w_last = NoResponse
    /\ ExtractIdle
    /\ e_action = {}
    /\ e_platform = "linux"
    /\ e_failing = {}
    /\ e_automation = TRUE
    /\ e_out = Outcome("", <<>>, FALSE)
    /\ e_done = FALSE
    /\ d_text = NoText
    /\ d_voice = DefaultVoice
    /\ d_available \in BOOLEAN
    /\ d_results = <<>>
    /\ d_window_voice = DefaultVoice
    /\ MoreIdle

WinReplies ==
    {Text(<<Word("thanks")>>, "en"),
     Text(<<Word("kaise"), SP, MARK, SP, LBRACE, Key("params"), RBRACE>>, "hi"),
     Text(<<MARK, SP, LBRACE, Member("intent", "search"), COMMA,
            Member("query", "abc"), RBRACE>>, "en")}

\* the ConversationalAI thread
ThreadStep ==
    \/ ConvRunAppend
    \/ ConvRunPost
    \/ \E r \in WinReplies : ConvRespondOk(r)
    \/ ConvRespondStatus
    \/ ConvRaise
    \/ RunFinish

\* the GUI thread
GuiStep ==
    \/ \E input \in WinInputs : SendMessage(input)
    \/ \E m \in QuickMessages : SendQuickMessage(m)
    \/ OnAiResponse
    \/ OnAiError
    \/ OnSpeechReady
    \/ OnSpeechError
    \/ OnAudioFinished
    \/ OnAudioError
    \/ \E v \in WinVoices : OnVoiceChanged(v)
    \/ OnAutoSpeakToggled
    \/ OnAutoVoiceSwitchToggled
    \/ TestCurrentVoice
    \/ SpeakLastMessage
    \/ StartVoiceInput
    \/ OnVoiceListeningStarted
    \/ \E t \in VoiceTexts : OnVoiceInputReady(t)
    \/ OnVoiceInputError
    \/ ClearAsk
    \/ ClearYes
    \/ ClearNo

Next ==
    \/ ThreadStep /\ UNCHANGED <<extractVars, executeVars, detectVars, windowVars, moreVars>>
    \/ GuiStep /\ UNCHANGED <<extractVars, executeVars, detectVars, moreVars>>

Spec == Init /\ [][Next]_vars

\* one invocation of text_to_speech
InitTts ==
    /\ tts_voice_id \in TtsVoices
    /\ tts_real \in BOOLEAN
    /\ tts_pc = "loop"
    /\ tts_try = 1
    /\ tts_calls = <<>>
    /\ tts_result = NoAudio
    /\ OthersIdle({"tts"})

NextTts ==
    /\ \/ TtsVendorOk
       \/ \E how \in TtsFailures : TtsVendorFails(how)
       \/ TtsDemo
       \/ TtsExhausted
    /\ Others({"tts"})

SpecTts == InitTts /\ [][NextTts]_vars

\* --- the OMNI-AI window and its worker thread -------------------------------
InitOmni ==
    /\ OmniIdle
    /\ OthersIdle({"omni"})

OmniGui ==
    \/ \E filename \in OmniPdfFiles : upload_pdf(filename)
    \/ \E filename \in OmniDocFiles : upload_document(filename)
    \/ \E entry \in OmniWebEntries : analyze_website(entry)
    \/ \E url \in OmniYoutubeEntries : analyze_youtube(url)
    \/ \E message \in OmniTexts : ModernGUI_send_message(message)
    \/ clear_chat
    \/ OmniShow
    \/ \E translated \in BOOLEAN : generate_hindi_summary(translated)

OmniWorker ==
    \/ OmniGet
    \/ \E world \in OmniWorlds : OmniProcess(world)

NextOmni ==
    \/ OmniGui /\ Others({"omni"})
    \/ OmniWorker /\ Others({"omni"})

SpecOmni == InitOmni /\ [][NextOmni]_vars

\* --- the processor called on its own ----------------------------------------
InitProcessor ==
    /\ p_query \in PQueries
    /\ p_context \in PContexts
    /\ p_world = FairWorld
    /\ p_fn = ""
    /\ p_result = NoResult
    /\ p_text = ""
    /\ OthersIdle({"processor"})

ProcessorCall ==
    \/ \E world \in PWorlds : CallProcessQuery(world)
    \/ \E world \in VideoWorlds : CallHandleVideo(world)
    \/ \E world \in WebWorlds : CallHandleWeb(world)
    \/ \E world \in DocWorlds : CallHandleDocument(world)
    \/ \E world \in DocWorlds : CallExtractDocument(world)
    \/ CallExtractYoutubeId

NextProcessor == ProcessorCall /\ Others({"processor"})

SpecProcessor == InitProcessor /\ [][NextProcessor]_vars

\* --- the voice selector of the OMNI-AI window -------------------------------
InitVoice ==
    /\ VoiceIdle
    /\ OthersIdle({"voice"})

NextVoice ==
    \/ (\E voice_id \in ShownVoices : SetVoiceCall(voice_id)) /\ Others({"voice"})
    \/ (\E choice \in available_voices : on_voice_change(choice)) /\ Others({"voice"})

SpecVoice == InitVoice /\ [][NextVoice]_vars

\* --- the QThread clients with the ledger; the thread, once started, runs
\* --- on, the request ends one way or another, and the event loop delivers
\* --- every signal
InitLedger ==
    /\ program \in {"conversational", "simple"}
    /\ github_token \in {"real", "placeholder"}
    /\ conversation_history =
          IF program = "conversational" THEN <<SystemEntry>> ELSE <<>>
    /\ user_message = NoText
    /\ ai_pc = "idle"
    /\ payload = <<>>
    /\ outbox = <<>>
    /\ run_message = NoText
    /\ recent = <<>>
    /\ appended = 0
    /\ cleared_mid_run = FALSE
    /\ requests = 0
    /\ LedgerIdle
    /\ OthersIdle({"chat", "ledger"})

LedgerThread ==
    \/ LedgerRunBegin /\ Others({"chat", "ledger"})
    \/ LedgerPost /\ Others({"chat", "ledger"})
    \/ LedgerRespond /\ Others({"chat", "ledger"})
    \/ LedgerFinish /\ Others({"chat", "ledger"})
    \/ LedgerSlot /\ Others({"chat", "ledger"})

NextLedger ==
    \/ (\E m \in ChatUserTexts : LedgerSubmit(m)) /\ Others({"chat", "ledger"})
    \/ LedgerThread

SpecLedger == InitLedger /\ [][NextLedger]_vars /\ WF_vars(LedgerThread)

\* --- the speech threads of the conversational window ----------------------------
InitSpeech ==
    /\ SpeechIdle
    /\ OthersIdle({"speech"})

SpeechOutcomes == {"speech_ready", "speech_error"}

SpeechWindow ==
    \/ \E blank \in BOOLEAN, outcome \in SpeechOutcomes : speak_text_threads(blank, outcome)
    \/ SpeechOutcomeHandled
    \/ _on_tts_thread_finished

SpeechThread ==
    \/ \E t \in 1..MaxSpeaks, outcome \in SpeechOutcomes : GenerateSpeechEnds(t, outcome)
    \/ \E t \in 1..MaxSpeaks : ThreadEnds(t)

NextSpeech ==
    \/ SpeechWindow /\ Others({"speech"})
    \/ SpeechThread /\ Others({"speech"})

SpecSpeech == InitSpeech /\ [][NextSpeech]_vars

\* --- the conversational client with a Clear button ---------------------------
InitClearing ==
    /\ program = "conversational"
    /\ github_token \in {"real", "placeholder"}
    /\ conversation_history = <<SystemEntry>>
    /\ user_message = NoText
    /\ ai_pc = "idle"
    /\ payload = <<>>
    /\ outbox = <<>>
    /\ run_message = NoText
    /\ recent = <<>>
    /\ appended = 0
    /\ cleared_mid_run = FALSE
    /\ requests = 0
    /\ ClearingIdle
    /\ OthersIdle({"chat", "clearing"})

ClearingGui ==
    \/ \E m \in ChatUserTexts : ClearingSubmit(m)
    \/ ClearingConfirmed
    \/ ClearingSlot

ClearingThread ==
    \/ ClearingRunAppend
    \/ ClearingPost
    \/ \E r \in ChatReplies : ClearingRespondOk(r)
    \/ ClearingRespondFails
    \/ ClearingFinish

NextClearing ==
    \/ ClearingGui /\ Others({"chat", "clearing"})
    \/ ClearingThread /\ Others({"chat", "clearing"})

SpecClearing == InitClearing /\ [][NextClearing]_vars

\* --- a VoiceListener and the window that toggles it ------------------------------
InitListener ==
    /\ listener_program \in {"app", "murf_ai_assistant"}
    /\ recognizer \in BOOLEAN
    /\ listener_program = "murf_ai_assistant" => recognizer
    /\ listening = FALSE
    /\ listener_pc = "idle"
    /\ listener_status = ""
    /\ toggles = 0
    /\ OthersIdle({"listener"})

ListenerGui ==
    \/ start_listening
    \/ stop_listening

ListenerThread ==
    \/ ListenerRunEnters
    \/ ListenerTest
    \/ \E outcome \in ListenOutcomes : ListenerBody(outcome)
    \/ ListenerRunReturns

NextListener ==
    \/ ListenerGui /\ Others({"listener"})
    \/ ListenerThread /\ Others({"listener"})

SpecListener == InitListener /\ [][NextListener]_vars

\* --- an AudioPlayer and the window that hands it buffers --------------------------
InitPlayer ==
    /\ player_available \in BOOLEAN
    /\ audio_data = 0
    /\ player_pc = "idle"
    /\ player_buffer = 0
    /\ handed = 0
    /\ played = [k \in 1..MaxBuffers |-> 0]
    /\ reported = [k \in 1..MaxBuffers |-> 0]
    /\ OthersIdle({"player"})

PlayerThread ==
    \/ PlayerReads /\ Others({"player"})
    \/ PlayerFinishes /\ Others({"player"})
    \/ PlayerFails /\ Others({"player"})
    \/ PlayerReturns /\ Others({"player"})

NextPlayer ==
    \/ play_audio /\ Others({"player"})
    \/ PlayerThread

\* the player thread, once started, keeps running; the window hands over
\* buffers when it likes
SpecPlayer == InitPlayer /\ [][NextPlayer]_vars /\ WF_vars(PlayerThread)

\* --- the conversational window, its speech requests followed -----------------------
MarkingThread ==
    \/ ConvRunAppend
    \/ ConvRunPost
    \/ \E r \in WinReplies : ConvRespondOk(r)
    \/ ConvRespondStatus
    \/ ConvRaise
    \/ RunFinish

MarkingGui ==
    \/ MarkingOnAiResponse
    \/ MarkingTestCurrentVoice
    \/ MarkingSpeakLastMessage
    \/ MarkingOnSpeechReady
    \/ MarkingOnSpeechError
    \/ MarkingOther

NextMarking ==
    \/ MarkingThread /\ UNCHANGED <<windowVars, markingVars>>
                     /\ Others({"chat", "window", "marking"})
    \/ MarkingGui /\ Others({"chat", "window", "marking"})

SpecMarking == Init /\ [][NextMarking]_vars

\* --- the selector after an automatic switch ----------------------------------------
\* C25: whenever a handler switches current_voice automatically
\* (send_quick_message for the input, on_ai_response for the reply), the
\* selector's current entry is the new voice after the handler
C25_AsClaimed ==
    [][(current_voice' # current_voice /\ w_op' # "on_voice_changed")
           => voice_combo' = current_voice']_vars

\* --- the agent window (app.py, murf_ai_assistant.py) and its input tasks -----------
InitInput ==
    /\ input_program \in {"app", "murf_ai_assistant"}
    /\ voice_enabled = TRUE
    /\ agent_history = <<ReadyMessage>>
    /\ turns = 0
    /\ pui_pc = [t \in 1..MaxTurns |-> "none"]
    /\ pui_text = [t \in 1..MaxTurns |-> ""]
    /\ pui_messages = [t \in 1..MaxTurns |-> <<>>]
    /\ OthersIdle({"input"})

InputTexts == {"hello", ""}
InputReplies == {"thanks"}

InputWindow ==
    \/ \E text \in InputTexts : send_manual_message(text)
    \/ \E text \in InputTexts : on_voice_detected(text)
    \/ toggle_voice

InputTask ==
    \/ \E t \in 1..MaxTurns : ProcessBuilds(t)
    \/ \E t \in 1..MaxTurns, reply \in InputReplies : ProcessReplied(t, reply)
    \/ \E t \in 1..MaxTurns : ProcessRaised(t)
    \/ \E t \in 1..MaxTurns : ProcessSpoke(t)

NextInput ==
    \/ InputWindow /\ Others({"input"})
    \/ InputTask /\ Others({"input"})

SpecInput == InitInput /\ [][NextInput]_vars

====
